---- MODULE Spec2Model ----
(***************************************************************************)
(* Consumer lifecycle of the order-processing service.                     *)
(*                                                                         *)
(* AbstractConsumerAdapter (start_scheduler / stop_scheduler /             *)
(* is_scheduler_running / _poll_wrapper) and KafkaConsumerAdapter (init /  *)
(* poll_messages / _close_consumer and the four lifecycle hooks) are       *)
(* modelled as a state machine: external callers run the lifecycle         *)
(* operations statement by statement under self.lock, worker threads run   *)
(* _poll_wrapper statement by statement, and both share stop_flag,         *)
(* keep_running, _consumer and _consumer_closed.  The handling of one      *)
(* record (_process_message_safely, _consume_message, _send_to_dlq) is     *)
(* computed from the record, the callback result and the producer outcome. *)
(* The use cases behind the callback (USECASE_ProcessEvents,               *)
(* USECASE_ProcessOrder, USECASE_CancelOrder) are computed from the        *)
(* request, the answers of their helpers and the helpers' order stores.    *)
(* AbstractService.run (authorization, build, execute, the mapping of      *)
(* exceptions to a ServiceOutput) is computed around USECASE_ProcessOrder. *)
(***************************************************************************)
EXTENDS Integers, Sequences, FiniteSets, TLC

\* ---- program constants -------------------------------------------------
POLL_RESTART_DELAY_SECONDS == 5
MAX_CONNECTION_RETRIES == 5
INITIAL_BACKOFF_SECONDS == 1
MAX_BACKOFF_SECONDS == 30

\* ---- bounds of the model -----------------------------------------------
\* threads start_scheduler may create over a run
MaxStarts == 3
\* thread.join(timeout=10) calls that may time out over a run
MaxTimeouts == 1
\* broker faults (failed connects, poll() raising) over a run
MaxFaults == 1

Callers == {"c1", "c2"}
Threads == 1..MaxStarts

VARIABLES
    lock,             \* self.lock: "free", or the caller holding it
    stop_flag,        \* self.stop_flag (threading.Event)
    thread_list,      \* self.thread_list
    keep_running,     \* self.keep_running
    consumer,         \* self._consumer: "None", or "obj" for a Consumer object
    consumer_closed,  \* self._consumer_closed
    client,           \* the Consumer object self._consumer refers to
    orphans,          \* Consumer objects replaced in self._consumer while open
    worker,           \* the threads running _poll_wrapper
    caller,           \* the external callers of the lifecycle operations
    starts,           \* threads created so far
    timeouts,         \* join timeouts so far
    faults,           \* broker faults so far
    race,             \* two callers waiting for the lock with the same call
    lastResult,       \* the outcome of the call that returns in this step
    lastCall,         \* what the worker-side call that ends in this step did
    issued,           \* the correlation ids given to records so far
    orders            \* the order store behind the helpers: id -> status

vars == <<lock, stop_flag, thread_list, keep_running, consumer,
          consumer_closed, client, orphans, worker, caller, starts, timeouts, faults,
          race, lastResult, lastCall, issued, orders>>

adapterVars == <<stop_flag, thread_list, keep_running>>
clientVars == <<consumer, consumer_closed, client, orphans>>
envVars == <<starts, timeouts, faults>>


Min(a, b) == IF a < b THEN a ELSE b

\* A thread that has not been created or has left _poll_wrapper.  attempt,
\* backoff and tick are the locals of init() and of the restart delay; exc
\* is the exception in flight; the other fields are history: what the
\* current init() call has done so far (tries, fails, slept), whether the
\* current poll_messages() call has connected, the calls _close_consumer
\* has made on the client, and the last thing that happened to the thread.
DeadWorker == [pc |-> "dead", attempt |-> 0, backoff |-> 0, tick |-> 0,
               exc |-> "none", last |-> "none", tries |-> 0, fails |-> 0,
               slept |-> <<>>, connected |-> FALSE, calls |-> <<>>]

IdleCaller == [pc |-> "idle", op |-> "none"]

NoResult == [caller |-> "none", op |-> "none", res |-> "none"]

NoClient == [state |-> "none", commits |-> 0, closes |-> 0]

NoCall == [op |-> "none"]

\* the correlation id a call generated for the record it dealt with
CallIds(call) ==
    IF "correlation_id" \in DOMAIN call THEN {call.correlation_id} ELSE {}

\* The order ids of the requests: orders the mock databases of the two V0
\* helpers hold, and "999", which neither holds.
OrderIds == {"1", "3", "4", "region-001", "999"}

\* _mock_orders of CONTRACT_HELPER_ProcessOrder_V0 and of
\* CONTRACT_HELPER_CancelOrder_V0: the status of each order held.
MockOrders ==
    [process |-> [id \in {"1", "3", "region-001"} |->
                    IF id = "3" THEN "processing" ELSE "new"],
     cancel |-> [id \in {"1", "3", "4"} |->
                    CASE id = "1" -> "new"
                      [] id = "3" -> "shipped"
                      [] OTHER -> "processing"]]

NoRace == [op |-> "none", tracked |-> FALSE, starts |-> 0, done |-> 0, oks |-> 0]

\* Thread.is_alive()
is_alive(w) == worker[w].pc # "dead"

\* the pcs at which a thread is inside the polling loop of poll_messages()
LoopPcs == {"pm_loop", "pm_poll", "pm_process"}

\* the pcs at which a thread is inside the interruptible sleep of init()
BackoffPcs == {"pm_backoff", "pm_sleep"}

\* Calls whose duration the code does not bound: the processing callback,
\* consumer.commit() and consumer.close().  A join with a 10 second timeout
\* can expire while the thread is inside one of them; everywhere else the
\* thread re-checks stop_flag within about a second.
BlockingPcs == {"pm_process", "cl_commit", "cl_close"}

Init ==
    /\ lock = "free"
    /\ stop_flag = FALSE
    /\ thread_list = <<>>
    /\ keep_running = FALSE
    /\ consumer = "None"
    /\ consumer_closed = TRUE
    /\ client = NoClient
    /\ orphans = FALSE
    /\ worker = [w \in Threads |-> DeadWorker]
    /\ caller = [c \in Callers |-> IdleCaller]
    /\ starts = 0
    /\ timeouts = 0
    /\ faults = 0
    /\ race = NoRace
    /\ lastResult = NoResult
    /\ lastCall = NoCall
    /\ issued = {}
    /\ orders = MockOrders

\* ---- the broker client (confluent_kafka Consumer) -----------------------
\* Consumer(conf) followed by subscribe(): a fresh open client.
NewClient == [state |-> "open", commits |-> 0, closes |-> 0]

\* consumer.commit() on the client held in self._consumer.
ClientCommit == [client EXCEPT !.commits = Min(@ + 1, 2)]

\* consumer.close() on the client held in self._consumer.
ClientClose ==
    [client EXCEPT !.state = "closed", !.closes = Min(@ + 1, 2)]

\* ---- _close_consumer, statement by statement ----------------------------
\* a close that does not look at the flag
CloseCheckUnguarded == "cl_commit"

\* `if self._consumer_closed: return`: the pc after the check, "ret" when
\* the method returns at once.
CloseCheckNext == IF consumer_closed THEN "ret" ELSE "cl_commit"

\* `if commit_offsets and self._consumer: self._consumer.commit()`.  A
\* commit on a closed client raises RuntimeError, which the outer
\* `except Exception` catches, skipping close().
CloseCommitNext ==
    IF consumer # "None" /\ client.state # "open"
    THEN "cl_flag" ELSE "cl_close"

CloseCommitClient ==
    IF consumer # "None" /\ client.state = "open"
    THEN ClientCommit ELSE client

\* `if self._consumer: self._consumer.close()`.
CloseCloseClient == IF consumer # "None" THEN ClientClose ELSE client

\* ---- the lifecycle operations, run by external callers ------------------
\* a lock that never excludes anybody
LockIgnored == TRUE

\* `with self.lock:` can be entered.
LockFree == lock = "free"

Range(s) == {s[i] : i \in 1..Len(s)}

SetCaller(c, pc) == caller' = [caller EXCEPT ![c].pc = pc]

\* A step in which no lifecycle call returns; the worker-side call `call`
\* (init, _process_message_safely, poll_messages) ends in it.
Completes(call) ==
    /\ lastCall' = call
    /\ lastResult' = NoResult
    /\ issued' = issued \cup CallIds(call)
    /\ UNCHANGED <<race, orders>>

\* A step in which no call returns.
NoReturn == Completes(NoCall)

\* The call of c returns ("ok") or raises RuntimeError ("err").
Return(c, res) ==
    /\ caller' = [caller EXCEPT ![c] = IdleCaller]
    /\ lastResult' = [caller |-> c, op |-> caller[c].op, res |-> res]
    /\ lastCall' = NoCall
    /\ UNCHANGED <<issued, orders>>
    /\ race' = IF race.op = "none" THEN race
               ELSE [race EXCEPT !.done = @ + 1,
                                 !.oks = IF res = "ok" THEN @ + 1 ELSE @]

\* A request handler calls start_scheduler() or stop_scheduler() and waits
\* for the lock.
Invoke(c, op) ==
    /\ caller[c].pc = "idle"
    /\ caller' = [caller EXCEPT ![c] = [pc |-> "wait", op |-> op]]
    /\ race' = IF \E d \in Callers \ {c} :
                     /\ caller[d].pc = "wait" /\ caller[d].op = op
                     /\ \A e \in Callers \ {c, d} : caller[e].pc = "idle"
               THEN [op |-> op, tracked |-> thread_list # <<>>, starts |-> starts,
                     done |-> 0, oks |-> 0]
               ELSE NoRace
    /\ lastResult' = NoResult
    /\ lastCall' = NoCall
    /\ UNCHANGED <<lock, adapterVars, clientVars, worker, envVars, issued,
                   orders>>

\* start_scheduler entered without the already-started test
StartEnterUnguarded(c) ==
    /\ caller[c].pc = "wait" /\ caller[c].op = "start"
    /\ LockFree
    /\ starts < MaxStarts
    /\ SetCaller(c, "s_clear")
    /\ lock' = c
    /\ NoReturn
    /\ UNCHANGED <<adapterVars, clientVars, worker, envVars>>

\* start_scheduler, lines 74-78: take the lock; raise when already started.
StartEnter(c) ==
    /\ caller[c].pc = "wait" /\ caller[c].op = "start"
    /\ LockFree
    /\ thread_list = <<>> => starts < MaxStarts
    /\ IF thread_list # <<>>
       THEN /\ Return(c, "err")
            /\ UNCHANGED lock
       ELSE /\ SetCaller(c, "s_clear")
            /\ NoReturn
            /\ lock' = c
    /\ UNCHANGED <<adapterVars, clientVars, worker, envVars>>

\* start_scheduler without the reset of the stop signal
StartClearSkipped(c) ==
    /\ caller[c].pc = "s_clear"
    /\ SetCaller(c, "s_before")
    /\ NoReturn
    /\ UNCHANGED <<lock, adapterVars, clientVars, worker, envVars>>

\* line 81: self.stop_flag.clear()
StartClear(c) ==
    /\ caller[c].pc = "s_clear"
    /\ stop_flag' = FALSE
    /\ SetCaller(c, "s_before")
    /\ UNCHANGED <<lock, thread_list, keep_running, clientVars, worker,
                   envVars>>
    /\ NoReturn

\* line 82: before_starting_poll() sets keep_running
before_starting_poll(c) ==
    /\ caller[c].pc = "s_before"
    /\ keep_running' = TRUE
    /\ SetCaller(c, "s_spawn")
    /\ UNCHANGED <<lock, stop_flag, thread_list, clientVars, worker,
                   envVars>>
    /\ NoReturn

\* lines 83-90: create and start the thread, track it, after_starting_poll()
\* (a no-op), return and release the lock.
StartSpawn(c) ==
    /\ caller[c].pc = "s_spawn"
    /\ starts < MaxStarts
    /\ starts' = starts + 1
    /\ worker' = [worker EXCEPT ![starts + 1] = [DeadWorker EXCEPT !.pc = "w_check"]]
    /\ thread_list' = Append(thread_list, starts + 1)
    /\ Return(c, "ok")
    /\ lock' = "free"
    /\ UNCHANGED <<stop_flag, keep_running, clientVars, timeouts, faults>>

\* lines 82 and 91-93: before_starting_poll() of a subclass raises; the
\* handler logs and raises RuntimeError, and the lock is released.
before_starting_poll_raises(c) ==
    /\ caller[c].pc = "s_before"
    /\ Return(c, "err")
    /\ lock' = "free"
    /\ UNCHANGED <<adapterVars, clientVars, worker, envVars>>

\* lines 83-86 and 91-93: threading.Thread(...) or start() raises (no
\* thread can be created); no thread runs and none is tracked.
ThreadStartRaises(c) ==
    /\ caller[c].pc = "s_spawn"
    /\ Return(c, "err")
    /\ lock' = "free"
    /\ UNCHANGED <<adapterVars, clientVars, worker, envVars>>

\* lines 83-93: the thread is created, started and appended to
\* thread_list, then after_starting_poll() of a subclass raises; the
\* handler logs and raises RuntimeError.
after_starting_poll_raises(c) ==
    /\ caller[c].pc = "s_spawn"
    /\ starts < MaxStarts
    /\ starts' = starts + 1
    /\ worker' = [worker EXCEPT ![starts + 1] = [DeadWorker EXCEPT !.pc = "w_check"]]
    /\ thread_list' = Append(thread_list, starts + 1)
    /\ Return(c, "err")
    /\ lock' = "free"
    /\ UNCHANGED <<stop_flag, keep_running, clientVars, timeouts, faults>>

\* stop_scheduler entered without the nothing-to-stop test
StopEnterUnguarded(c) ==
    /\ caller[c].pc = "wait" /\ caller[c].op = "stop"
    /\ LockFree
    /\ SetCaller(c, "st_before")
    /\ lock' = c
    /\ NoReturn
    /\ UNCHANGED <<adapterVars, clientVars, worker, envVars>>

\* stop_scheduler, lines 97-103: take the lock; raise when nothing to stop.
StopEnter(c) ==
    /\ caller[c].pc = "wait" /\ caller[c].op = "stop"
    /\ LockFree
    /\ IF thread_list = <<>>
       THEN /\ Return(c, "err")
            /\ UNCHANGED lock
       ELSE /\ SetCaller(c, "st_before")
            /\ NoReturn
            /\ lock' = c
    /\ UNCHANGED <<adapterVars, clientVars, worker, envVars>>

\* line 104: before_stopping_poll() clears keep_running
before_stopping_poll(c) ==
    /\ caller[c].pc = "st_before"
    /\ keep_running' = FALSE
    /\ SetCaller(c, "st_set")
    /\ UNCHANGED <<lock, stop_flag, thread_list, clientVars, worker,
                   envVars>>
    /\ NoReturn

\* line 105: self.stop_flag.set().  A thread waiting to restart, or waiting
\* in a connection backoff, that has not yet seen the signal is marked
\* (worker.last is a history field).
StopSet(c) ==
    /\ caller[c].pc = "st_set"
    /\ stop_flag' = TRUE
    /\ worker' = [w \in Threads |->
                    IF worker[w].pc = "w_wait" /\ ~stop_flag
                    THEN [worker[w] EXCEPT !.last = "stopInWait"]
                    ELSE IF worker[w].pc \in BackoffPcs /\ ~stop_flag
                    THEN [worker[w] EXCEPT !.last = "stopInBackoff"]
                    ELSE worker[w]]
    /\ SetCaller(c, "st_join")
    /\ UNCHANGED <<lock, thread_list, keep_running, clientVars, envVars>>
    /\ NoReturn

\* lines 108-115: every tracked thread has terminated within the timeout.
StopJoined(c) ==
    /\ caller[c].pc = "st_join"
    /\ \A t \in Range(thread_list) : ~is_alive(t)
    /\ thread_list' = <<>>
    /\ SetCaller(c, "cl_check")
    /\ UNCHANGED <<lock, stop_flag, keep_running, clientVars, worker,
                   envVars>>
    /\ NoReturn

\* join() without a timeout: it never gives up on a live thread
StopJoinForever(c) ==
    /\ caller[c].pc = "st_join"
    /\ FALSE
    /\ UNCHANGED vars

\* lines 108-115: a tracked thread is still alive after join(timeout=10);
\* it is logged and dropped from thread_list all the same.
StopJoinTimeout(c) ==
    /\ caller[c].pc = "st_join"
    /\ \E t \in Range(thread_list) : is_alive(t)
    /\ \A t \in Range(thread_list) : is_alive(t) => worker[t].pc \in BlockingPcs
    /\ timeouts < MaxTimeouts
    /\ timeouts' = timeouts + 1
    /\ thread_list' = <<>>
    /\ SetCaller(c, "cl_check")
    /\ UNCHANGED <<lock, stop_flag, keep_running, clientVars, worker,
                   starts, faults>>
    /\ NoReturn

\* line 116, after_stopping_poll() -> _close_consumer, line 243; when the
\* consumer is already closed stop_scheduler returns (lines 117-118).
StopCloseCheck(c) ==
    /\ caller[c].pc = "cl_check"
    /\ IF CloseCheckNext = "ret"
       THEN /\ Return(c, "ok")
            /\ lock' = "free"
       ELSE /\ SetCaller(c, CloseCheckNext)
            /\ NoReturn
            /\ UNCHANGED lock
    /\ UNCHANGED <<adapterVars, clientVars, worker, envVars>>

\* _close_consumer, lines 247-252
StopCloseCommit(c) ==
    /\ caller[c].pc = "cl_commit"
    /\ client' = CloseCommitClient
    /\ SetCaller(c, CloseCommitNext)
    /\ UNCHANGED <<lock, adapterVars, consumer, consumer_closed, orphans, worker,
                   envVars>>
    /\ NoReturn

\* _close_consumer, lines 254-256
StopCloseClose(c) ==
    /\ caller[c].pc = "cl_close"
    /\ client' = CloseCloseClient
    /\ SetCaller(c, "cl_flag")
    /\ UNCHANGED <<lock, adapterVars, consumer, consumer_closed, orphans, worker,
                   envVars>>
    /\ NoReturn

\* _close_consumer, line 260, then stop_scheduler lines 117-118
StopCloseFlag(c) ==
    /\ caller[c].pc = "cl_flag"
    /\ consumer_closed' = TRUE
    /\ Return(c, "ok")
    /\ lock' = "free"
    /\ UNCHANGED <<adapterVars, consumer, client, orphans, worker, envVars>>

\* is_scheduler_running, lines 120-123
is_scheduler_running(c) ==
    /\ caller[c].pc = "idle"
    /\ LockFree
    /\ lastResult' = [caller |-> c, op |-> "running",
                      res |-> IF Len(thread_list) > 0 THEN "true" ELSE "false"]
    /\ race' = NoRace
    /\ lastCall' = NoCall
    /\ UNCHANGED <<lock, adapterVars, clientVars, worker, caller, envVars,
                   issued, orders>>

\* ---- the worker thread: _poll_wrapper and poll_messages -----------------
SetWorker(w, r) == worker' = [worker EXCEPT ![w] = r]

\* The exception classes the handlers tell apart: KafkaError, which
\* `except KafkaError` catches, and any other Exception.
ErrorKinds == {"KafkaError", "Exception"}

\* what poll_messages() did, recorded when it is left
ExitCall(w) ==
    [op |-> "poll_messages",
     res |-> IF worker[w].exc = "error" THEN "raise" ELSE "return",
     connected |-> worker[w].connected,
     calls |-> worker[w].calls]

\* The pc after poll_messages' finally block: the exception propagates to
\* the handler of _poll_wrapper, or the call returns to its while test.
AfterFinally(w) ==
    IF worker[w].exc = "error"
    THEN [worker[w] EXCEPT !.pc = "w_except", !.exc = "none",
                           !.connected = FALSE, !.calls = <<>>]
    ELSE [worker[w] EXCEPT !.pc = "w_check", !.last = "returned",
                           !.connected = FALSE, !.calls = <<>>]

\* _poll_wrapper line 53: `while not self.stop_flag.is_set()`, then line 55
\* and init() line 81.
WrapperCheck(w) ==
    /\ worker[w].pc = "w_check"
    /\ IF stop_flag
       THEN SetWorker(w, DeadWorker)
       ELSE SetWorker(w, [worker[w] EXCEPT !.pc = "pm_init", !.attempt = 1,
                                          !.backoff = INITIAL_BACKOFF_SECONDS])
    /\ UNCHANGED <<lock, adapterVars, clientVars, caller, envVars>>
    /\ NoReturn

\* what init() did, recorded when it returns or raises
InitCall(w, res, tried, failed) ==
    [op |-> "init", res |-> res, attempt |-> worker[w].attempt,
     attempts |-> tried, fails |-> failed, slept |-> worker[w].slept]

\* the thread once init() has returned or raised
InitDone(w) ==
    [worker[w] EXCEPT !.attempt = 0, !.backoff = 0, !.tick = 0, !.tries = 0,
                      !.fails = 0, !.slept = <<>>, !.last = "none"]

\* init() lines 88-95: the connection is established.
ConnectOk(w) ==
    /\ worker[w].pc = "pm_init"
    /\ consumer' = "obj"
    /\ client' = NewClient
    /\ orphans' = (orphans \/ client.state = "open")
    /\ consumer_closed' = FALSE
    /\ SetWorker(w, [InitDone(w) EXCEPT !.pc = "pm_loop", !.connected = TRUE])
    /\ UNCHANGED <<lock, adapterVars, caller, envVars>>
    /\ Completes(InitCall(w, "ok", worker[w].tries + 1, worker[w].fails))

\* init() lines 88-102: Consumer(conf) raises an error of the given kind.
\* Only KafkaError is caught (line 96): before the last attempt it leads to
\* the backoff, at the last attempt to ConnectionError.  Any other error
\* leaves init() at once.  What leaves init() leaves poll_messages through
\* lines 155-159.
ConnectError(w, kind) ==
    /\ worker[w].pc = "pm_init"
    /\ IF kind = "KafkaError" /\ worker[w].attempt # MAX_CONNECTION_RETRIES
       THEN /\ SetWorker(w, [worker[w] EXCEPT !.pc = "pm_backoff", !.tick = 0,
                                             !.tries = @ + 1, !.fails = @ + 1,
                                             !.last = "none"])
            /\ NoReturn
       ELSE /\ SetWorker(w, [InitDone(w) EXCEPT !.pc = "cl_check",
                                               !.exc = "error"])
            /\ Completes(InitCall(w, IF kind = "KafkaError"
                                     THEN "ConnectionError" ELSE kind,
                                  worker[w].tries + 1, worker[w].fails + 1))
    /\ UNCHANGED <<lock, adapterVars, clientVars, caller, starts, timeouts>>

\* a connection attempt that fails with KafkaError, within the fault budget
\* of the run
ConnectFail(w) ==
    /\ faults < MaxFaults
    /\ faults' = faults + 1
    /\ ConnectError(w, "KafkaError")

\* a connection attempt that fails while the broker stays unreachable
ConnectDown(w) ==
    /\ UNCHANGED faults
    /\ \E kind \in ErrorKinds : ConnectError(w, kind)

\* init() lines 88-102: Consumer(conf) returns and is stored in
\* self._consumer (line 88), then subscribe() (line 89) or Producer()
\* (line 90) raises an error of the given kind.  Line 93 is not reached, so
\* _consumer_closed keeps its value; the error is handled as in
\* ConnectError.
ConnectPartial(w, kind) ==
    /\ worker[w].pc = "pm_init"
    /\ consumer' = "obj"
    /\ client' = NewClient
    /\ orphans' = (orphans \/ client.state = "open")
    /\ UNCHANGED consumer_closed
    /\ IF kind = "KafkaError" /\ worker[w].attempt # MAX_CONNECTION_RETRIES
       THEN /\ SetWorker(w, [worker[w] EXCEPT !.pc = "pm_backoff", !.tick = 0,
                                             !.tries = @ + 1, !.fails = @ + 1,
                                             !.last = "none"])
            /\ NoReturn
       ELSE /\ SetWorker(w, [InitDone(w) EXCEPT !.pc = "cl_check",
                                               !.exc = "error"])
            /\ Completes(InitCall(w, IF kind = "KafkaError"
                                     THEN "ConnectionError" ELSE kind,
                                  worker[w].tries + 1, worker[w].fails + 1))
    /\ UNCHANGED <<lock, adapterVars, caller, starts, timeouts>>

\* a connection attempt that fails after the Consumer object was created
ConnectHalf(w) ==
    /\ UNCHANGED faults
    /\ \E kind \in ErrorKinds : ConnectPartial(w, kind)

\* a sleep loop that does not look at the stop signal
BackoffCheckDeaf(w) ==
    /\ worker[w].pc = "pm_backoff"
    /\ SetWorker(w, [worker[w] EXCEPT !.pc = "pm_sleep"])
    /\ NoReturn
    /\ UNCHANGED <<lock, adapterVars, clientVars, caller, envVars>>

\* init() lines 104-106: a round of the interruptible sleep starts with the
\* test of the stop signal; InterruptedError is swallowed by poll_messages
\* (line 153), which goes on to its finally block.
BackoffCheck(w) ==
    /\ worker[w].pc = "pm_backoff"
    /\ IF stop_flag
       THEN /\ SetWorker(w, [InitDone(w) EXCEPT !.pc = "cl_check",
                                               !.exc = "none",
                                               !.last = worker[w].last])
            /\ Completes(InitCall(w, "InterruptedError", worker[w].tries,
                                  worker[w].fails))
       ELSE /\ SetWorker(w, [worker[w] EXCEPT !.pc = "pm_sleep"])
            /\ NoReturn
    /\ UNCHANGED <<lock, adapterVars, clientVars, caller, envVars>>

\* a backoff that does not grow
BackoffSleepFlat(w) ==
    /\ worker[w].pc = "pm_sleep"
    /\ IF worker[w].tick + 1 < worker[w].backoff
       THEN SetWorker(w, [worker[w] EXCEPT !.pc = "pm_backoff", !.tick = @ + 1])
       ELSE SetWorker(w, [worker[w] EXCEPT
                            !.pc = "pm_init", !.tick = 0,
                            !.attempt = @ + 1,
                            !.slept = Append(@, worker[w].backoff)])
    /\ UNCHANGED <<lock, adapterVars, clientVars, caller, envVars>>
    /\ NoReturn

\* init() lines 109-110: time.sleep(1) ends; after `backoff` rounds the
\* delay is doubled up to the maximum and the next attempt is made
\* (line 83).
BackoffSleep(w) ==
    /\ worker[w].pc = "pm_sleep"
    /\ IF worker[w].tick + 1 < worker[w].backoff
       THEN SetWorker(w, [worker[w] EXCEPT !.pc = "pm_backoff", !.tick = @ + 1])
       ELSE SetWorker(w, [worker[w] EXCEPT
                            !.pc = "pm_init", !.tick = 0,
                            !.attempt = @ + 1,
                            !.slept = Append(@, worker[w].backoff),
                            !.backoff = Min(@ * 2, MAX_BACKOFF_SECONDS)])
    /\ UNCHANGED <<lock, adapterVars, clientVars, caller, envVars>>
    /\ NoReturn

\* poll_messages line 137: `while self.keep_running and not stop_flag`
LoopCheck(w) ==
    /\ worker[w].pc = "pm_loop"
    /\ IF keep_running /\ ~stop_flag
       THEN SetWorker(w, [worker[w] EXCEPT !.pc = "pm_poll"])
       ELSE SetWorker(w, [worker[w] EXCEPT !.pc = "cl_check", !.exc = "none"])
    /\ UNCHANGED <<lock, adapterVars, clientVars, caller, envVars>>
    /\ NoReturn

\* line 138-141: poll() times out (in Spec and ConcSpec the step also stands
\* for a record with a broker-level error, lines 146-148)
PollNone(w) ==
    /\ worker[w].pc = "pm_poll"
    /\ client.state = "open"
    /\ SetWorker(w, [worker[w] EXCEPT !.pc = "pm_loop"])
    /\ UNCHANGED <<lock, adapterVars, clientVars, caller, envVars>>
    /\ NoReturn

\* line 138: poll() returns a record
PollRecord(w) ==
    /\ worker[w].pc = "pm_poll"
    /\ client.state = "open"
    /\ SetWorker(w, [worker[w] EXCEPT !.pc = "pm_process"])
    /\ UNCHANGED <<lock, adapterVars, clientVars, caller, envVars>>
    /\ NoReturn

\* line 138: poll() raises: RuntimeError on a closed client, or a broker
\* fault; lines 155-157 re-raise through the finally block.
PollRaise(w) ==
    /\ worker[w].pc = "pm_poll"
    /\ \/ /\ client.state # "open"
          /\ UNCHANGED faults
       \/ /\ client.state = "open"
          /\ faults < MaxFaults
          /\ faults' = faults + 1
    /\ SetWorker(w, [worker[w] EXCEPT !.pc = "cl_check", !.exc = "error"])
    /\ UNCHANGED <<lock, adapterVars, clientVars, caller, starts, timeouts>>
    /\ NoReturn

\* line 151: _process_message_safely returns (it never raises)
ProcessMessage(w) ==
    /\ worker[w].pc = "pm_process"
    /\ SetWorker(w, [worker[w] EXCEPT !.pc = "pm_loop"])
    /\ UNCHANGED <<lock, adapterVars, clientVars, caller, envVars>>
    /\ NoReturn

\* line 159 -> _close_consumer line 243
WorkerCloseCheck(w) ==
    /\ worker[w].pc = "cl_check"
    /\ IF CloseCheckNext = "ret"
       THEN /\ SetWorker(w, AfterFinally(w))
            /\ Completes(ExitCall(w))
       ELSE /\ SetWorker(w, [worker[w] EXCEPT !.pc = CloseCheckNext])
            /\ NoReturn
    /\ UNCHANGED <<lock, adapterVars, clientVars, caller, envVars>>

\* the call _close_consumer makes at lines 247-249, as the thread records it
CommitCall ==
    IF consumer = "None" THEN <<>>
    ELSE IF client.state = "open" THEN <<"commit">>
    ELSE <<"commit:Exception">>

\* _close_consumer lines 247-252, the commit returning
WorkerCloseCommit(w) ==
    /\ worker[w].pc = "cl_commit"
    /\ client' = CloseCommitClient
    /\ SetWorker(w, [worker[w] EXCEPT !.pc = CloseCommitNext,
                                     !.calls = @ \o CommitCall])
    /\ UNCHANGED <<lock, adapterVars, consumer, consumer_closed, orphans, caller,
                   envVars>>
    /\ NoReturn

\* the pc after a commit that raised an error of the given kind: KafkaError
\* is caught at line 251 and close() follows; any other error is caught at
\* line 257, which skips close().
CommitRaiseNext(kind) == IF kind = "KafkaError" THEN "cl_close" ELSE "cl_flag"

\* _close_consumer lines 247-252 and 257-258: commit() on the open client
\* raises an error of the given kind.
WorkerCloseCommitRaise(w) ==
    /\ worker[w].pc = "cl_commit"
    /\ consumer # "None" /\ client.state = "open"
    /\ \E kind \in ErrorKinds :
         SetWorker(w, [worker[w] EXCEPT
                         !.pc = CommitRaiseNext(kind),
                         !.calls = Append(@, "commit:" \o kind)])
    /\ UNCHANGED <<lock, adapterVars, clientVars, caller, envVars>>
    /\ NoReturn

\* _close_consumer lines 254-256
WorkerCloseClose(w) ==
    /\ worker[w].pc = "cl_close"
    /\ client' = CloseCloseClient
    /\ SetWorker(w, [worker[w] EXCEPT
                       !.pc = "cl_flag",
                       !.calls = IF consumer # "None" THEN Append(@, "close")
                                 ELSE @])
    /\ UNCHANGED <<lock, adapterVars, consumer, consumer_closed, orphans, caller,
                   envVars>>
    /\ NoReturn

\* _close_consumer line 260, then poll_messages is left
WorkerCloseFlag(w) ==
    /\ worker[w].pc = "cl_flag"
    /\ consumer_closed' = TRUE
    /\ SetWorker(w, AfterFinally(w))
    /\ UNCHANGED <<lock, adapterVars, consumer, client, orphans, caller, envVars>>
    /\ Completes(ExitCall(w))

\* a wrapper without the handler: an exception of poll_messages ends the
\* thread
WrapperExceptFatal(w) ==
    /\ worker[w].pc = "w_except"
    /\ SetWorker(w, DeadWorker)
    /\ UNCHANGED <<lock, adapterVars, clientVars, caller, envVars>>
    /\ NoReturn

\* _poll_wrapper lines 56-63: the handler of an exception of poll_messages
WrapperExcept(w) ==
    /\ worker[w].pc = "w_except"
    /\ IF stop_flag
       THEN SetWorker(w, DeadWorker)
       ELSE SetWorker(w, [worker[w] EXCEPT !.pc = "w_wait", !.tick = 0,
                                          !.last = "waiting"])
    /\ UNCHANGED <<lock, adapterVars, clientVars, caller, envVars>>
    /\ NoReturn

\* _poll_wrapper lines 65-68: one round of the restart delay
WaitTick(w) ==
    /\ worker[w].pc = "w_wait"
    /\ IF stop_flag \/ worker[w].tick + 1 >= POLL_RESTART_DELAY_SECONDS
       THEN SetWorker(w, [worker[w] EXCEPT !.pc = "w_check", !.tick = 0])
       ELSE SetWorker(w, [worker[w] EXCEPT !.tick = @ + 1])
    /\ UNCHANGED <<lock, adapterVars, clientVars, caller, envVars>>
    /\ NoReturn

\* ---- one record: _process_message_safely, _consume_message, _send_to_dlq -
\* A text is a sequence of pieces, each a slice of a named source text, so
\* that concatenation and truncation are computed and not assumed.
Text(name, n) ==
    IF n = 0 THEN <<>> ELSE <<[text |-> name, from |-> 1, to |-> n]>>

RECURSIVE TextLen(_)
TextLen(s) ==
    IF s = <<>> THEN 0 ELSE (s[1].to - s[1].from + 1) + TextLen(Tail(s))

\* s[:n]
RECURSIVE Truncate(_, _)
Truncate(s, n) ==
    IF s = <<>> \/ n <= 0 THEN <<>>
    ELSE LET k == s[1].to - s[1].from + 1
         IN IF k <= n THEN <<s[1]>> \o Truncate(Tail(s), n - k)
            ELSE <<[s[1] EXCEPT !.to = s[1].from + n - 1]>>

\* _send_to_dlq line 220: error_reason[:500]
ERROR_REASON_LIMIT == 500

\* msg.key(): no key, bytes that are UTF-8, bytes that are not
Keys == {"None", "utf8", "invalid_utf8"}

\* msg.value(): no value, bytes that are not UTF-8, text that is not JSON,
\* JSON that is a scalar or an array, a JSON object the Event model rejects
\* (id or name missing or not a string), and a JSON object it accepts.
Payloads == {"None", "invalid_utf8", "invalid_json", "json_scalar",
             "json_array", "json_object", "event"}

\* str(uuid.uuid4())[:8], line 144
CorrelationIds == {"1f0c9a3e", "7b2d44c1"}

\* what FUNCTION_ProcessEvents can tell: a short reason, one as long as the
\* header limit, one longer
Reasons == {Text("boom", 4), Text("trace", ERROR_REASON_LIMIT),
            Text("trace", ERROR_REASON_LIMIT + 1)}

\* FUNCTION_ProcessEvents returns a result with success set, returns one
\* with success unset and a message, or raises an exception with a message.
CallbackOutcomes ==
    {[kind |-> "success", text |-> Text("Event processed successfully", 28)]}
    \cup [kind : {"failure", "raise"}, text : Reasons]

\* producer.produce() and producer.flush(), lines 224-227
DlqOutcomes == {"ok", "produce_raises", "flush_raises"}

\* lines 181-186: raw_value.decode("utf-8") and json.loads: the exception
\* raised, "none" when the value is parsed.
DecodeError(payload) ==
    CASE payload = "None" -> "AttributeError"
      [] payload = "invalid_utf8" -> "UnicodeDecodeError"
      [] payload = "invalid_json" -> "JSONDecodeError"
      [] OTHER -> "none"

\* a dead-letter sink that is handed the decoded key in place of msg.key()
send_to_dlq_decoded(key, payload, cid, reason, dlq) ==
    [publishes |-> <<[key |-> IF key = "utf8" THEN "str" ELSE key,
                      value |-> payload, correlation_id |-> cid,
                      error_reason |-> Truncate(reason, ERROR_REASON_LIMIT),
                      result |-> dlq]>>,
     raised |-> FALSE]

\* a dead-letter sink that lets the errors of its producer through
send_to_dlq_unguarded(key, payload, cid, reason, dlq) ==
    [publishes |-> <<[key |-> key, value |-> payload, correlation_id |-> cid,
                      error_reason |-> Truncate(reason, ERROR_REASON_LIMIT),
                      result |-> dlq]>>,
     raised |-> dlq # "ok"]

\* _send_to_dlq, lines 214-237: one publish attempt with the two headers;
\* an error of produce() or flush() is logged and goes no further.
send_to_dlq(key, payload, cid, reason, dlq) ==
    [publishes |-> <<[key |-> key, value |-> payload, correlation_id |-> cid,
                      error_reason |-> Truncate(reason, ERROR_REASON_LIMIT),
                      result |-> dlq]>>,
     raised |-> FALSE]

\* a result check that lets a failed result pass
consume_message_lenient(payload, cb) ==
    IF payload # "event"
    THEN [callbacks |-> 0, raised |-> TRUE, reason |-> Text("ValidationError", 15)]
    ELSE IF cb.kind = "raise"
    THEN [callbacks |-> 1, raised |-> TRUE, reason |-> cb.text]
    ELSE [callbacks |-> 1, raised |-> FALSE, reason |-> <<>>]

\* a result check that is inverted
consume_message_inverted(payload, cb) ==
    IF payload # "event"
    THEN [callbacks |-> 0, raised |-> TRUE, reason |-> Text("ValidationError", 15)]
    ELSE IF cb.kind = "raise"
    THEN [callbacks |-> 1, raised |-> TRUE, reason |-> cb.text]
    ELSE IF cb.kind = "success"
    THEN [callbacks |-> 1, raised |-> TRUE,
          reason |-> Text("Event processing failed: ", 25) \o cb.text]
    ELSE [callbacks |-> 1, raised |-> FALSE, reason |-> <<>>]

\* _consume_message, lines 274-291, for a JSON object: Event(...) rejects
\* the object, or FUNCTION_ProcessEvents is called once; a result without
\* success raises RuntimeError("Event processing failed: " + message), and
\* whatever is raised is raised again with its text.
consume_message(payload, cb) ==
    IF payload # "event"
    THEN [callbacks |-> 0, raised |-> TRUE, reason |-> Text("ValidationError", 15)]
    ELSE IF cb.kind = "raise"
    THEN [callbacks |-> 1, raised |-> TRUE, reason |-> cb.text]
    ELSE IF cb.kind = "failure"
    THEN [callbacks |-> 1, raised |-> TRUE,
          reason |-> Text("Event processing failed: ", 25) \o cb.text]
    ELSE [callbacks |-> 1, raised |-> FALSE, reason |-> <<>>]

\* a decode error handler that drops the record
decode_failure_dropped(key, payload, cid, dlq) ==
    [publishes |-> <<>>, raised |-> FALSE]

\* lines 187-194: the handler of JSONDecodeError and UnicodeDecodeError
decode_failure(key, payload, cid, dlq) ==
    send_to_dlq(key, payload, cid,
                Text("JSON error: ", 12) \o Text(DecodeError(payload), 18), dlq)

\* _process_message_safely, lines 178-206: what is done with one record.
process_message_safely(key, payload, cid, cb, dlq) ==
    LET none == [publishes |-> <<>>, raised |-> FALSE]
        \* lines 202-206: the handler of every other exception
        failed(reason) == send_to_dlq(key, payload, cid, reason, dlq)
        run == consume_message(payload, cb)
        called == key # "invalid_utf8" /\ DecodeError(payload) = "none"
                     /\ payload \in {"json_object", "event"}
        sent ==
            IF key = "invalid_utf8"
            THEN failed(Text("UnicodeDecodeError", 18))
            ELSE IF DecodeError(payload) = "AttributeError"
            THEN failed(Text("AttributeError", 14))
            ELSE IF DecodeError(payload) # "none"
            THEN decode_failure(key, payload, cid, dlq)
            ELSE IF payload \in {"json_scalar", "json_array"}
            THEN failed(Text("AttributeError", 14))
            ELSE IF run.raised THEN failed(run.reason)
            ELSE none
    IN [op |-> "process", key |-> key, payload |-> payload,
        correlation_id |-> cid, logged |-> {cid},
        callback |-> IF called /\ run.callbacks > 0 THEN cb.kind ELSE "none",
        reason |-> IF called /\ run.callbacks > 0 THEN cb.text ELSE <<>>,
        callbacks |-> IF called THEN run.callbacks ELSE 0,
        publishes |-> sent.publishes,
        raised |-> sent.raised]

\* a loop that gives up the record in hand once the stop signal is set
HandleRecordInterruptible(w) ==
    /\ worker[w].pc = "pm_process"
    /\ IF stop_flag
       THEN /\ NoReturn
            /\ SetWorker(w, [worker[w] EXCEPT !.pc = "cl_check"])
       ELSE \E key \in Keys, payload \in Payloads, cid \in CorrelationIds,
               cb \in CallbackOutcomes, dlq \in DlqOutcomes :
              /\ Completes(process_message_safely(key, payload, cid, cb, dlq))
              /\ SetWorker(w, [worker[w] EXCEPT !.pc = "pm_loop"])
    /\ UNCHANGED <<lock, adapterVars, clientVars, caller, envVars>>

\* poll_messages line 151 in full: the record is handled, and the loop goes
\* on unless something was raised.
HandleRecord(w) ==
    /\ worker[w].pc = "pm_process"
    /\ \E key \in Keys, payload \in Payloads, cid \in CorrelationIds,
          cb \in CallbackOutcomes, dlq \in DlqOutcomes :
         LET did == process_message_safely(key, payload, cid, cb, dlq)
         IN /\ Completes(did)
            /\ IF did.raised
               THEN SetWorker(w, [worker[w] EXCEPT !.pc = "cl_check",
                                                  !.exc = "error"])
               ELSE SetWorker(w, [worker[w] EXCEPT !.pc = "pm_loop"])
    /\ UNCHANGED <<lock, adapterVars, clientVars, caller, envVars>>

\* msg.error().code(): the end of a partition, or any other broker error
KafkaErrorCodes == {"_PARTITION_EOF", "other"}

\* a handler that takes the error of a record for a failure of the consumer
handle_kafka_error_fatal(code, cid) ==
    [op |-> "kafka_error", code |-> code, correlation_id |-> cid,
     logged |-> {cid}, level |-> "error", callbacks |-> 0, publishes |-> <<>>,
     raised |-> code # "_PARTITION_EOF"]

\* _handle_kafka_error, lines 161-170: the error is logged with the
\* correlation id, at debug level for the end of a partition; nothing is
\* called, published or raised.
handle_kafka_error(code, cid) ==
    [op |-> "kafka_error", code |-> code, correlation_id |-> cid,
     logged |-> {cid},
     level |-> IF code = "_PARTITION_EOF" THEN "debug" ELSE "error",
     callbacks |-> 0, publishes |-> <<>>, raised |-> FALSE]

\* lines 138-148: poll() returns a record that carries a broker-level
\* error; it gets a correlation id, is handed to _handle_kafka_error, and
\* `continue` leads back to the loop test.
PollError(w) ==
    /\ worker[w].pc = "pm_poll"
    /\ client.state = "open"
    /\ \E code \in KafkaErrorCodes, cid \in CorrelationIds :
         LET did == handle_kafka_error(code, cid)
         IN /\ Completes(did)
            /\ IF did.raised
               THEN SetWorker(w, [worker[w] EXCEPT !.pc = "cl_check",
                                                  !.exc = "error"])
               ELSE SetWorker(w, [worker[w] EXCEPT !.pc = "pm_loop"])
    /\ UNCHANGED <<lock, adapterVars, clientVars, caller, envVars>>

\* ---- the use cases: USECASE_ProcessEvents, _ProcessOrder, _CancelOrder ---
\* Amounts are in cents.
FREE_SHIPPING_THRESHOLD == 10000
STANDARD_SHIPPING == 599
FRAUD_THRESHOLD_AMOUNT == 1000000
DISCOUNT_PERCENT == 10
CANCELLATION_FEE_PERCENT == 5
UNSUPPORTED_REGIONS == {"Antarctica", "Mars Colony"}

\* order.total_amount of the orders of the mock databases
TotalAmount(id) ==
    CASE id = "1" -> 15000
      [] id = "3" -> 7550
      [] OTHER -> 50000

\* self._order_regions.get(order.id, "USA")
Region(id) ==
    CASE id = "region-001" -> "Antarctica"
      [] id = "3" -> "UK"
      [] OTHER -> "USA"

\* a call of a helper method, as a test double records it
HelperCall(fn, id, arg) == [fn |-> fn, order |-> id, arg |-> arg]

\* load_order of both helpers: the order, or OrderNotFoundException; for an
\* id that is not held also None, the answer line 61 of
\* USECASE_ProcessOrder provides for.
LoadOutcomes(store, id) ==
    IF id \in DOMAIN store THEN {"order"}
    ELSE {"OrderNotFoundException", "None"}

\* a validation that does not look at the status of the order
validate_order_any_status(store, id) ==
    IF TotalAmount(id) <= 0 THEN "InvalidOrderException"
    ELSE IF TotalAmount(id) > FRAUD_THRESHOLD_AMOUNT
    THEN "InvalidOrderException"
    ELSE "none"

\* CONTRACT_HELPER_ProcessOrder_V0.validate_order, lines 151-212: the
\* exception raised, "none" when the order is accepted.  The orders held
\* are all in stock.
validate_order(store, id) ==
    IF store[id] \notin {"new", "pending"} THEN "InvalidOrderException"
    ELSE IF TotalAmount(id) <= 0 THEN "InvalidOrderException"
    ELSE IF TotalAmount(id) > FRAUD_THRESHOLD_AMOUNT
    THEN "InvalidOrderException"
    ELSE "none"

\* What validate_order returns when it accepts: None, as the V0 helper, the
\* interface (-> None) and the test doubles do, or a truth value, which is
\* what line 70 of USECASE_ProcessOrder tests.
ValidateReturns == {"None", "True"}

\* calculate_shipping, lines 214-251: the exception raised, if any
shipping_error(id) ==
    IF Region(id) \in UNSUPPORTED_REGIONS THEN "InvalidOrderException"
    ELSE "none"

\* calculate_shipping, lines 239-246
calculate_shipping(id) ==
    IF TotalAmount(id) >= FREE_SHIPPING_THRESHOLD THEN 0 ELSE STANDARD_SHIPPING

\* apply_discounts, lines 253-268
apply_discounts(id) == (TotalAmount(id) * DISCOUNT_PERCENT) \div 100

\* update_order_status of both helpers: the status is written to the store
update_order_status(store, id, status) == [store EXCEPT ![id] = status]

\* the result of a use case that has called nothing yet
NoOutput(op, id) ==
    [op |-> op, order_id |-> id, load |-> "none", calls |-> <<>>,
     raised |-> "none", failed_at |-> "none", success |-> FALSE, validated |-> "none",
     shipping_cost |-> 0, discount_applied |-> 0, final_total |-> 0,
     refund_amount |-> 0, status |-> "none"]

\* a use case that catches what validate_order raises and goes on
ProcessOrder_execute_lenient(store, id, load, ret) ==
    LET out == NoOutput("process_order", id)
        c1 == <<HelperCall("load_order", id, "")>>
        c2 == Append(c1, HelperCall("validate_order", id, ""))
        c3 == Append(c2, HelperCall("calculate_shipping", id, ""))
        c6 == c3 \o <<HelperCall("apply_discounts", id, ""),
                      HelperCall("update_order_status", id, "processing"),
                      HelperCall("notify_customer", id, "")>>
    IN IF load = "OrderNotFoundException"
       THEN [out |-> [out EXCEPT !.calls = c1, !.raised = load,
                                 !.failed_at = "load_order"],
             store |-> store]
       ELSE IF load = "None"
       THEN [out |-> [out EXCEPT !.calls = c1], store |-> store]
       ELSE IF validate_order(store, id) = "none" /\ ret = "None"
       THEN [out |-> [out EXCEPT !.calls = c2, !.validated = ret,
                                 !.status = store[id]],
             store |-> store]
       ELSE IF shipping_error(id) # "none"
       THEN [out |-> [out EXCEPT !.calls = c3, !.validated = ret,
                                 !.raised = shipping_error(id),
                                 !.failed_at = "calculate_shipping",
                                 !.status = store[id]],
             store |-> store]
       ELSE [out |-> [out EXCEPT
                        !.calls = c6, !.validated = ret, !.success = TRUE,
                        !.failed_at = IF validate_order(store, id) # "none"
                                      THEN "validate_order" ELSE "none",
                        !.shipping_cost = calculate_shipping(id),
                        !.discount_applied = apply_discounts(id),
                        !.final_total = TotalAmount(id) + calculate_shipping(id)
                                        - apply_discounts(id),
                        !.status = "processing"],
             store |-> update_order_status(store, id, "processing")]

\* USECASE_ProcessOrder.execute, lines 42-113, on the helper's store: the
\* output (or the exception that leaves execute, with the helper that
\* raised it), the helper calls made, and the store afterwards.  load is
\* what load_order answers, ret what validate_order returns when it
\* accepts; `if not is_valid` (line 70) ends the use case without success
\* on None.
ProcessOrder_execute(store, id, load, ret) ==
    LET out == NoOutput("process_order", id)
        c1 == <<HelperCall("load_order", id, "")>>
        c2 == Append(c1, HelperCall("validate_order", id, ""))
        c3 == Append(c2, HelperCall("calculate_shipping", id, ""))
        c6 == c3 \o <<HelperCall("apply_discounts", id, ""),
                      HelperCall("update_order_status", id, "processing"),
                      HelperCall("notify_customer", id, "")>>
    IN IF load = "OrderNotFoundException"
       THEN [out |-> [out EXCEPT !.calls = c1, !.raised = load,
                                 !.failed_at = "load_order"],
             store |-> store]
       ELSE IF load = "None"
       THEN [out |-> [out EXCEPT !.calls = c1], store |-> store]
       ELSE IF validate_order(store, id) # "none"
       THEN [out |-> [out EXCEPT !.calls = c2,
                                 !.raised = validate_order(store, id),
                                 !.failed_at = "validate_order",
                                 !.status = store[id]],
             store |-> store]
       ELSE IF ret = "None"
       THEN [out |-> [out EXCEPT !.calls = c2, !.validated = ret,
                                 !.status = store[id]],
             store |-> store]
       ELSE IF shipping_error(id) # "none"
       THEN [out |-> [out EXCEPT !.calls = c3, !.validated = ret,
                                 !.raised = shipping_error(id),
                                 !.failed_at = "calculate_shipping",
                                 !.status = store[id]],
             store |-> store]
       ELSE [out |-> [out EXCEPT
                        !.calls = c6, !.validated = ret, !.success = TRUE,
                        !.shipping_cost = calculate_shipping(id),
                        !.discount_applied = apply_discounts(id),
                        !.final_total = TotalAmount(id) + calculate_shipping(id)
                                        - apply_discounts(id),
                        !.status = "processing"],
             store |-> update_order_status(store, id, "processing")]

\* a request to process an order is served
ProcessOrder ==
    /\ \E id \in OrderIds, ret \in ValidateReturns :
         \E load \in LoadOutcomes(orders.process, id) :
           LET did == ProcessOrder_execute(orders.process, id, load, ret)
           IN /\ lastCall' = [did.out EXCEPT !.load = load]
              /\ orders' = [orders EXCEPT !.process = did.store]
    /\ lastResult' = NoResult
    /\ UNCHANGED <<lock, adapterVars, clientVars, worker, caller, envVars,
                   race, issued>>

\* CONTRACT_HELPER_CancelOrder_V0.validate_cancellable, lines 89-119: the
\* exception raised, "none" when the order can be cancelled
validate_cancellable(store, id) ==
    IF store[id] \in {"shipped", "delivered", "cancelled"}
    THEN "OrderNotCancellableException"
    ELSE IF store[id] \notin {"new", "pending", "processing"}
    THEN "OrderNotCancellableException"
    ELSE "none"

\* calculate_refund, lines 121-138: the total less the cancellation fee
calculate_refund(id) ==
    TotalAmount(id) - (TotalAmount(id) * CANCELLATION_FEE_PERCENT) \div 100

\* a use case that logs what validate_cancellable raises and goes on
CancelOrder_execute_lenient(store, id, load) ==
    LET out == NoOutput("cancel_order", id)
        c1 == <<HelperCall("load_order", id, "")>>
        c5 == c1 \o <<HelperCall("validate_cancellable", id, ""),
                      HelperCall("calculate_refund", id, ""),
                      HelperCall("update_order_status", id, "cancelled"),
                      HelperCall("notify_customer", id, "")>>
    IN IF load = "OrderNotFoundException"
       THEN [out |-> [out EXCEPT !.calls = c1, !.raised = load,
                                 !.failed_at = "load_order"],
             store |-> store]
       ELSE [out |-> [out EXCEPT
                        !.calls = c5, !.success = TRUE,
                        !.failed_at = IF validate_cancellable(store, id) # "none"
                                      THEN "validate_cancellable" ELSE "none",
                        !.refund_amount = calculate_refund(id),
                        !.status = "cancelled"],
             store |-> update_order_status(store, id, "cancelled")]

\* USECASE_CancelOrder.execute, lines 39-97, on the helper's store; the
\* value validate_cancellable returns is not looked at (line 65).
CancelOrder_execute(store, id, load) ==
    LET out == NoOutput("cancel_order", id)
        c1 == <<HelperCall("load_order", id, "")>>
        c2 == Append(c1, HelperCall("validate_cancellable", id, ""))
        c5 == c2 \o <<HelperCall("calculate_refund", id, ""),
                      HelperCall("update_order_status", id, "cancelled"),
                      HelperCall("notify_customer", id, "")>>
    IN IF load = "OrderNotFoundException"
       THEN [out |-> [out EXCEPT !.calls = c1, !.raised = load,
                                 !.failed_at = "load_order"],
             store |-> store]
       ELSE IF validate_cancellable(store, id) # "none"
       THEN [out |-> [out EXCEPT !.calls = c2,
                                 !.raised = validate_cancellable(store, id),
                                 !.failed_at = "validate_cancellable",
                                 !.status = store[id]],
             store |-> store]
       ELSE [out |-> [out EXCEPT
                        !.calls = c5, !.success = TRUE,
                        !.refund_amount = calculate_refund(id),
                        !.status = "cancelled"],
             store |-> update_order_status(store, id, "cancelled")]

\* a request to cancel an order is served; load_order answers with the
\* order or raises (line 61 of the use case says so)
CancelOrder ==
    /\ \E id \in OrderIds :
         \E load \in LoadOutcomes(orders.cancel, id) \ {"None"} :
           LET did == CancelOrder_execute(orders.cancel, id, load)
           IN /\ lastCall' = [did.out EXCEPT !.load = load]
              /\ orders' = [orders EXCEPT !.cancel = did.store]
    /\ lastResult' = NoResult
    /\ UNCHANGED <<lock, adapterVars, clientVars, worker, caller, envVars,
                   race, issued>>

\* event.name: an event that has a processor module, and one that has not
EventNames == {"OrderCreated", "OrderShipped"}

\* CONTRACT_HELPER_ProcessEvents_V0.detect_event_processor: importlib finds
\* the module src.app.infra.events.entities.concrete.<name> or raises; the
\* text of the exception, <<>> when the processor is returned.
detect_event_processor(name) ==
    IF name = "OrderCreated" THEN <<>> ELSE Text("No module named ", 16)

\* What process(event) does: it returns None (EventProcessor_OrderCreated
\* has no return statement), returns a ServiceOutput with a status and an
\* error_message (<<>> for None), or raises an exception with a text.
ProcessOutcomes ==
    {[kind |-> "None", status |-> "none", text |-> <<>>]}
    \cup [kind : {"ServiceOutput"},
          status : {"SUCCESS", "FAILURE", "NOT_FOUND"},
          text : {<<>>, Text("boom", 4)}]
    \cup [kind : {"raise"}, status : {"none"},
          text : {Text("boom", 4), Text("Processing failed", 17)}]

\* the processor was not asked
NotProcessed == [kind |-> "none", status |-> "none", text |-> <<>>]

\* a use case without the exception handler of lines 48-54
ProcessEvents_execute_uncaught(name, proc) ==
    LET out == [op |-> "process_events", event |-> name, process |-> proc,
                calls |-> <<"detect_event_processor", "process">>,
                raised |-> "none", success |-> TRUE, error |-> <<>>,
                message |-> Text("Event processed successfully: ", 30)
                            \o Text(name, Len(name))]
    IN IF detect_event_processor(name) # <<>>
       THEN [out EXCEPT !.process = NotProcessed,
                        !.calls = <<"detect_event_processor">>,
                        !.raised = "Exception", !.success = FALSE,
                        !.error = detect_event_processor(name),
                        !.message = <<>>]
       ELSE IF proc.kind = "ServiceOutput" /\ proc.status = "SUCCESS"
       THEN out
       ELSE [out EXCEPT !.raised = "Exception", !.success = FALSE,
                        !.error = proc.text, !.message = <<>>]

\* USECASE_ProcessEvents.execute, lines 31-54: the processor is detected
\* and asked to process the event; result.status is read from what it
\* returns (line 40), which raises AttributeError on None; a status other
\* than SUCCESS raises Exception(error_message or "Unknown error") (lines
\* 41-43); every exception ends in the handler of lines 48-54, which
\* returns a result without success that quotes the event name and the
\* text of the exception.
ProcessEvents_execute(name, proc) ==
    LET out == [op |-> "process_events", event |-> name, process |-> proc,
                calls |-> <<"detect_event_processor", "process">>,
                raised |-> "none", success |-> TRUE, error |-> <<>>,
                message |-> Text("Event processed successfully: ", 30)
                            \o Text(name, Len(name))]
        failed(err) == Text("Failed to process event: ", 25)
                       \o Text(name, Len(name)) \o Text(". Error: ", 9)
                       \o err
        error ==
            IF proc.kind = "raise" THEN proc.text
            ELSE IF proc.kind = "None"
            THEN Text("'NoneType' object has no attribute 'status'", 43)
            ELSE IF proc.text = <<>> THEN Text("Unknown error", 13)
            ELSE proc.text
    IN IF detect_event_processor(name) # <<>>
       THEN [out EXCEPT !.process = NotProcessed,
                        !.calls = <<"detect_event_processor">>,
                        !.success = FALSE,
                        !.error = detect_event_processor(name),
                        !.message = failed(detect_event_processor(name))]
       ELSE IF proc.kind = "ServiceOutput" /\ proc.status = "SUCCESS"
       THEN out
       ELSE [out EXCEPT !.success = FALSE, !.error = error,
                        !.message = failed(error)]

\* an event is handed to USECASE_ProcessEvents
ProcessEvents ==
    /\ \E name \in EventNames, proc \in ProcessOutcomes :
         lastCall' = ProcessEvents_execute(name, proc)
    /\ lastResult' = NoResult
    /\ UNCHANGED <<lock, adapterVars, clientVars, worker, caller, envVars,
                   race, issued, orders>>

\* ---- the service: AbstractService.run around USECASE_ProcessOrder --------
\* service_input.user: no user, a user the authorization service accepts,
\* a user it refuses
Users == {"None", "alice", "mallory"}

\* dependencies.authorization_service: None (what get_process_order_service
\* passes) or an implementation of UsecaseAuthorizationService
AuthorizationServices == {"None", "service"}

\* UsecaseAuthorizationService.is_authorized(user, service_name)
is_authorized(user) == user = "alice"

\* SERVICE_ProcessOrder.build: the helper is found, or RuntimeError
BuildOutcomes == {"ok", "RuntimeError"}

\* AppException.status of the exceptions of the ProcessOrder helper
AppStatus(exc) ==
    CASE exc = "OrderNotFoundException" -> "NOT_FOUND"
      [] exc = "InvalidOrderException" -> "VALIDATION_ERROR"

\* the exceptions of the order helpers that derive from AppException
AppExceptions == {"OrderNotFoundException", "InvalidOrderException"}

\* ServiceOutput: data is <<>> for None and <<d>> for the value d
ServiceOutput(status, data, error_message) ==
    [status |-> status, data |-> data, error_message |-> error_message]

\* AbstractService.authorize, lines 69-86
authorize(auth, user) ==
    IF user = "None" THEN TRUE
    ELSE IF auth = "None" THEN TRUE
    ELSE is_authorized(user)

\* a run that has no handler for AppException of its own
run_unmapped(auth, user, build, store, id, load, ret) ==
    LET did == ProcessOrder_execute(store, id, load, ret)
        none == [built |-> FALSE, executed |-> FALSE, exc |-> "none",
                 raised |-> FALSE, calls |-> <<>>, store |-> store]
    IN IF ~authorize(auth, user)
       THEN none @@ ServiceOutput("UNAUTHORIZED", <<>>,
                                  "User is not authorized to perform this action")
       ELSE IF build # "ok"
       THEN [none EXCEPT !.exc = build]
            @@ ServiceOutput("FAILURE", <<>>, build)
       ELSE IF did.out.raised # "none"
       THEN [none EXCEPT !.built = TRUE, !.executed = TRUE,
                         !.exc = did.out.raised, !.calls = did.out.calls]
            @@ ServiceOutput("FAILURE", <<>>, did.out.raised)
       ELSE [none EXCEPT !.built = TRUE, !.executed = TRUE,
                         !.calls = did.out.calls, !.store = did.store]
            @@ ServiceOutput("SUCCESS", <<did.out>>, "None")

\* AbstractService.run, lines 88-115, of SERVICE_ProcessOrder: the
\* ServiceOutput returned, whether the use case was built and executed, the
\* exception build or execute raised, the helper calls made and the store
\* afterwards.  raised says whether run itself raised.
run(auth, user, build, store, id, load, ret) ==
    LET did == ProcessOrder_execute(store, id, load, ret)
        none == [built |-> FALSE, executed |-> FALSE, exc |-> "none",
                 raised |-> FALSE, calls |-> <<>>, store |-> store]
    IN IF ~authorize(auth, user)
       THEN none @@ ServiceOutput("UNAUTHORIZED", <<>>,
                                  "User is not authorized to perform this action")
       ELSE IF build # "ok"
       THEN [none EXCEPT !.exc = build]
            @@ ServiceOutput("FAILURE", <<>>, build)
       ELSE IF did.out.raised \in AppExceptions
       THEN [none EXCEPT !.built = TRUE, !.executed = TRUE,
                         !.exc = did.out.raised, !.calls = did.out.calls]
            @@ ServiceOutput(AppStatus(did.out.raised), <<>>, did.out.raised)
       ELSE IF did.out.raised # "none"
       THEN [none EXCEPT !.built = TRUE, !.executed = TRUE,
                         !.exc = did.out.raised, !.calls = did.out.calls]
            @@ ServiceOutput("FAILURE", <<>>, did.out.raised)
       ELSE [none EXCEPT !.built = TRUE, !.executed = TRUE,
                         !.calls = did.out.calls, !.store = did.store]
            @@ ServiceOutput("SUCCESS", <<did.out>>, "None")

\* FUNCTION_ProcessOrder(input_data, user) on a service created with or
\* without an authorization service
ServiceRun ==
    /\ \E auth \in AuthorizationServices, user \in Users,
          build \in BuildOutcomes, id \in OrderIds, ret \in ValidateReturns :
         \E load \in LoadOutcomes(orders.process, id) :
           LET did == run(auth, user, build, orders.process, id, load, ret)
           IN /\ lastCall' = [op |-> "service_run", auth |-> auth,
                              user |-> user, order_id |-> id,
                              built |-> did.built, executed |-> did.executed,
                              exc |-> did.exc, raised |-> did.raised,
                              calls |-> did.calls, status |-> did.status,
                              data |-> did.data,
                              error_message |-> did.error_message]
              /\ orders' = [orders EXCEPT !.process = did.store]
    /\ lastResult' = NoResult
    /\ UNCHANGED <<lock, adapterVars, clientVars, worker, caller, envVars,
                   race, issued>>

\* ---- validate_order on any order ----------------------------------------
\* order.status of the order handed to validate_order
OrderStatuses == {"new", "pending", "processing", "cancelled"}

\* order.total_amount in cents: around zero, an everyday amount, around the
\* fraud threshold
Amounts ==
    {-1, 0, 1, 15000, FRAUD_THRESHOLD_AMOUNT - 1, FRAUD_THRESHOLD_AMOUNT,
     FRAUD_THRESHOLD_AMOUNT + 1}

\* the region _order_regions holds for the order
Regions == {"USA", "Antarctica"}

\* CONTRACT_HELPER_ProcessOrder_V0.validate_order, lines 166-212, on the
\* fields it reads: the exception raised, "none" when the order is
\* accepted.  in_stock is FALSE when _inventory_status holds False for the
\* order.
validate_order_checks(status, amount, in_stock) ==
    IF status \notin {"new", "pending"} THEN "InvalidOrderException"
    ELSE IF amount <= 0 THEN "InvalidOrderException"
    ELSE IF amount > FRAUD_THRESHOLD_AMOUNT THEN "InvalidOrderException"
    ELSE IF in_stock = FALSE THEN "InvalidOrderException"
    ELSE "none"

\* validate_order is called on an order
ValidateOrder ==
    /\ \E status \in OrderStatuses, amount \in Amounts,
          in_stock \in BOOLEAN, region \in Regions :
         lastCall' = [op |-> "validate_order", status |-> status,
                      amount |-> amount, in_stock |-> in_stock,
                      region |-> region,
                      raised |-> validate_order_checks(status, amount,
                                                       in_stock)]
    /\ lastResult' = NoResult
    /\ UNCHANGED <<lock, adapterVars, clientVars, worker, caller, envVars,
                   race, issued, orders>>

\* update_order_status(order, "processing") is called on the helper for an
\* order it holds
UpdateOrderStatus ==
    /\ \E id \in DOMAIN orders.process :
         /\ lastCall' = [op |-> "update_order_status", order_id |-> id,
                         status |-> "processing"]
         /\ orders' = [orders EXCEPT
                         !.process = update_order_status(@, id, "processing")]
    /\ lastResult' = NoResult
    /\ UNCHANGED <<lock, adapterVars, clientVars, worker, caller, envVars,
                   race, issued>>

\* ---- the specifications -------------------------------------------------
\* the statements of start_scheduler after the lock is taken
StartBody(c) ==
    \/ StartClear(c)
    \/ before_starting_poll(c)
    \/ StartSpawn(c)

\* the statements of stop_scheduler after the lock is taken, with a join
\* that ends because the thread has terminated
StopBody(c) ==
    \/ before_stopping_poll(c)
    \/ StopSet(c)
    \/ StopJoined(c)
    \/ StopCloseCheck(c)

\* a join that times out, and what only runs after one: the worker closes
\* the consumer before it terminates, so after_stopping_poll finds an open
\* consumer only when the join gave up on a live thread
StopTimedOut(c) ==
    \/ StopJoinTimeout(c)
    \/ StopCloseCommit(c)
    \/ StopCloseClose(c)
    \/ StopCloseFlag(c)

CallerStep(c) ==
    \/ Invoke(c, "start")
    \/ Invoke(c, "stop")
    \/ StartEnter(c)
    \/ StartBody(c)
    \/ StopEnter(c)
    \/ StopBody(c)
    \/ is_scheduler_running(c)

WorkerStep(w) ==
    \/ WrapperCheck(w)
    \/ ConnectOk(w)
    \/ ConnectFail(w)
    \/ BackoffCheck(w)
    \/ BackoffSleep(w)
    \/ LoopCheck(w)
    \/ PollNone(w)
    \/ PollRecord(w)
    \/ PollRaise(w)
    \/ ProcessMessage(w)
    \/ WorkerCloseCheck(w)
    \/ WorkerCloseCommit(w)
    \/ WorkerCloseClose(w)
    \/ WorkerCloseFlag(w)
    \/ WrapperExcept(w)
    \/ WaitTick(w)

\* Lifecycle calls made one after the other; a join may time out.
Next ==
    \/ CallerStep("c1")
    \/ StopTimedOut("c1")
    \/ \E w \in Threads : WorkerStep(w)

Spec == Init /\ [][Next]_vars

\* Lifecycle calls made concurrently by the request handlers; the worker
\* always ends within the join timeout.
ConcNext ==
    \/ \E c \in Callers : CallerStep(c)
    \/ \E w \in Threads : WorkerStep(w)

ConcSpec == Init /\ [][ConcNext]_vars

\* One thread at a time (no join times out), with the broker and the
\* records in full: connection attempts that keep failing, every kind of
\* record, callback result and dead-letter outcome, and commits that fail.
ConsumeStep(w) ==
    \/ WrapperCheck(w)
    \/ ConnectOk(w)
    \/ ConnectDown(w)
    \/ ConnectHalf(w)
    \/ BackoffCheck(w)
    \/ BackoffSleep(w)
    \/ LoopCheck(w)
    \/ PollNone(w)
    \/ PollError(w)
    \/ PollRecord(w)
    \/ PollRaise(w)
    \/ HandleRecord(w)
    \/ WorkerCloseCheck(w)
    \/ WorkerCloseCommit(w)
    \/ WorkerCloseCommitRaise(w)
    \/ WorkerCloseClose(w)
    \/ WorkerCloseFlag(w)
    \/ WrapperExcept(w)
    \/ WaitTick(w)

ConsumeNext ==
    \/ CallerStep("c1")
    \/ \E w \in Threads : ConsumeStep(w)

ConsumeSpec == Init /\ [][ConsumeNext]_vars

\* One run of the consumer, started once and stopped with a join that may
\* time out, so that stop_scheduler() closes the consumer under a thread
\* that is still handling a record.  The thread is scheduled and the
\* callback returns: a record in hand is eventually dealt with.
FlightCaller(c) ==
    \/ starts = 0 /\ Invoke(c, "start")
    \/ Invoke(c, "stop")
    \/ StartEnter(c)
    \/ StartBody(c)
    \/ StopEnter(c)
    \/ StopBody(c)
    \/ StopTimedOut(c)

FlightStep(w) ==
    \/ WrapperCheck(w)
    \/ ConnectOk(w)
    \/ LoopCheck(w)
    \/ PollNone(w)
    \/ PollRecord(w)
    \/ PollRaise(w)
    \/ HandleRecord(w)
    \/ WorkerCloseCheck(w)
    \/ WorkerCloseCommit(w)
    \/ WorkerCloseClose(w)
    \/ WorkerCloseFlag(w)
    \/ WrapperExcept(w)
    \/ WaitTick(w)

InFlightNext ==
    \/ FlightCaller("c1")
    \/ \E w \in Threads : FlightStep(w)

InFlightSpec ==
    /\ Init /\ [][InFlightNext]_vars
    /\ WF_vars(\E w \in Threads : HandleRecord(w))

\* Lifecycle calls one after the other with joins that may time out, as
\* in Spec, with every thread scheduled and every call it makes returning:
\* the processing callback, commit() and close() included.
RestartSpec ==
    /\ Init /\ [][Next]_vars
    /\ \A w \in Threads : WF_vars(WorkerStep(w))

\* An adapter whose hooks can fail and a system that can run out of
\* threads: start_scheduler() may raise from inside its try block.
StartFails(c) ==
    \/ before_starting_poll_raises(c)
    \/ ThreadStartRaises(c)
    \/ after_starting_poll_raises(c)

HookNext ==
    \/ CallerStep("c1")
    \/ StartFails("c1")
    \/ \E w \in Threads : WorkerStep(w)

HookSpec == Init /\ [][HookNext]_vars

\* The use cases on their own: events and order requests served one after
\* the other on the stores of the helpers.
UsecaseNext ==
    \/ ProcessEvents
    \/ ProcessOrder
    \/ CancelOrder
    \/ ServiceRun
    \/ ValidateOrder
    \/ UpdateOrderStatus

UsecaseSpec == Init /\ [][UsecaseNext]_vars

TypeOK ==
    /\ lock \in {"free"} \cup Callers
    /\ stop_flag \in BOOLEAN /\ keep_running \in BOOLEAN
    /\ consumer_closed \in BOOLEAN
    /\ consumer \in {"None", "obj"}
    /\ Len(thread_list) <= MaxStarts

\* ---- properties ---------------------------------------------------------
AliveThreads == {w \in Threads : is_alive(w)}

\* C1: at every point of any sequence of start_scheduler()/stop_scheduler()
\* calls, also after a join that timed out, at most one thread is executing
\* _poll_wrapper/poll_messages.
C1_AtMostOneWorker == Cardinality(AliveThreads) <= 1

\* c is about to enter `with self.lock` of the named call and takes its step
Enters(c, op) ==
    /\ caller[c].pc = "wait" /\ caller[c].op = op
    /\ caller'[c] # caller[c]

\* the call of c raises RuntimeError in this step
Raises(c, op) ==
    /\ lastResult' = [caller |-> c, op |-> op, res |-> "err"]
    /\ caller'[c].pc = "idle"

\* C2: start_scheduler() called while a worker is already tracked raises an
\* error, spawns no thread, leaves the stop signal and keep_running as they
\* are, and thread_list still holds exactly one worker.
C2_StartWhileTracked ==
    [][\A c \in Callers :
         (Enters(c, "start") /\ thread_list # <<>>) =>
            /\ Raises(c, "start")
            /\ UNCHANGED <<worker, starts, stop_flag, keep_running, thread_list>>
            /\ Len(thread_list') = 1]_vars

C2_Witness ==
    /\ lastResult.op = "start" /\ lastResult.res = "err"
    /\ Len(thread_list) = 1
    /\ is_alive(thread_list[1])

\* C3: stop_scheduler() called while no worker is tracked raises an error,
\* creates no worker, invokes neither before_stopping_poll nor
\* after_stopping_poll, and leaves the stop signal and thread_list unchanged.
C3_StopWhileIdle ==
    [][\A c \in Callers :
         (Enters(c, "stop") /\ thread_list = <<>>) =>
            /\ Raises(c, "stop")
            /\ UNCHANGED <<worker, starts, stop_flag, keep_running, thread_list,
                           consumer, consumer_closed, client>>]_vars

C3_Witness ==
    /\ lastResult.op = "stop" /\ lastResult.res = "err"
    /\ thread_list = <<>>
    /\ starts > 0

\* C4: after any stop_scheduler() call returns, is_scheduler_running() is
\* false; a start_scheduler() that finds no worker tracked is not refused,
\* and when it returns the stop signal is cleared, keep_running is true and
\* a fresh worker is tracked and about to poll, in every start/stop cycle.
C4_Restartable ==
    [][/\ lastResult'.op = "stop" => thread_list' = <<>>
       /\ (lastResult'.op = "running" /\ thread_list = <<>>)
             => lastResult'.res = "false"
       /\ \A c \in Callers :
            (Enters(c, "start") /\ thread_list = <<>>)
               => (caller'[c].pc = "s_clear" /\ lastResult'.res # "err")
       /\ (lastResult'.op = "start" /\ lastResult'.res = "ok")
             => /\ ~stop_flag' /\ keep_running'
                /\ Len(thread_list') = 1
                /\ ~is_alive(thread_list'[1])
                /\ worker'[thread_list'[1]].pc = "w_check"]_vars

C4_Witness ==
    /\ starts >= 2
    /\ thread_list = <<starts>>
    /\ worker[starts].pc = "pm_poll"
    /\ AliveThreads = {starts}
    /\ ~stop_flag /\ keep_running

InBody(c) == caller[c].pc \notin {"idle", "wait"}

\* C5: the lifecycle operations are mutually exclusive: at most one caller
\* is inside a `with self.lock` block; of two concurrent start_scheduler()
\* calls on an idle lifecycle exactly one succeeds and exactly one thread is
\* created, and of two concurrent stop_scheduler() calls on a running
\* lifecycle exactly one succeeds.
C5_MutualExclusion ==
    /\ \A c, d \in Callers : (InBody(c) /\ InBody(d)) => c = d
    /\ \A c \in Callers : InBody(c) => lock = c
    /\ Len(thread_list) <= 1
    /\ race.done = 2 =>
         /\ race.op = "start" =>
              IF race.tracked
              THEN race.oks = 0 /\ starts = race.starts
              ELSE race.oks = 1 /\ starts = race.starts + 1
         /\ race.op = "stop" => race.oks = (IF race.tracked THEN 1 ELSE 0)

C5_Witness ==
    /\ race.done = 2 /\ race.op = "stop" /\ race.tracked /\ race.oks = 1
    /\ race.starts >= 1

\* the contexts that are inside a call on the consumer handle
WorkersUsingConsumer ==
    {w \in Threads : worker[w].pc \in {"pm_poll", "cl_commit", "cl_close"}}
CallersUsingConsumer ==
    {c \in Callers : caller[c].pc \in {"cl_commit", "cl_close"}}

\* C6: the consumer handle is never used by two execution contexts at the
\* same time, and the commit/close of stop_scheduler() happens only after
\* every worker's poll loop has exited, also when the join timed out.
C6_ExclusiveConsumerUse ==
    /\ Cardinality(WorkersUsingConsumer) + Cardinality(CallersUsingConsumer) <= 1
    /\ CallersUsingConsumer # {} =>
          \A w \in Threads : worker[w].pc \notin LoopPcs

Quiescent == AliveThreads = {} /\ \A c \in Callers : caller[c].pc = "idle"

\* C7: for every connection established by init(), offsets are committed
\* and the client is closed exactly once: never twice, and once everything
\* has stopped no established connection is left uncommitted or open.
C7_ClosedExactlyOnce ==
    /\ ~orphans
    /\ client.state # "none" =>
            /\ client.commits <= 1
            /\ client.closes <= 1
            /\ Quiescent => (client.commits = 1 /\ client.closes = 1)

\* ---- the scheduling the code relies on ----------------------------------
\* start_scheduler() requested while no thread of an earlier, timed-out
\* stop is still alive
QuietStart(c) ==
    /\ AliveThreads \subseteq Range(thread_list)
    /\ Invoke(c, "start")

FairNext ==
    \/ QuietStart("c1")
    \/ Invoke("c1", "stop")
    \/ StartEnter("c1")
    \/ StartBody("c1")
    \/ StopEnter("c1")
    \/ StopBody("c1")
    \/ StopTimedOut("c1")
    \/ is_scheduler_running("c1")
    \/ \E w \in Threads : WorkerStep(w)

\* a step of a thread that is not inside an unbounded call
BoundedStep(w) == worker[w].pc \notin BlockingPcs /\ WorkerStep(w)

\* an unbounded call that completes; assumed only once no further join may
\* time out (timeouts = MaxTimeouts)
UnboundedStep(w) ==
    /\ worker[w].pc \in BlockingPcs
    /\ timeouts = MaxTimeouts
    /\ WorkerStep(w)

\* The calling thread runs stop_scheduler to its end, and worker threads
\* are scheduled; a worker inside the processing callback or a broker call
\* may stay there forever.
FairSpec ==
    /\ Init /\ [][FairNext]_vars
    /\ WF_vars(StopBody("c1") \/ StopTimedOut("c1"))
    /\ \A w \in Threads : WF_vars(BoundedStep(w)) /\ WF_vars(UnboundedStep(w))

C9_NoPollAfterReturn ==
    \A w \in Threads :
        ~(worker[w].pc = "pm_init" /\ worker[w].last = "returned")

\* C10: in _poll_wrapper, when poll_messages() raises with the stop signal
\* set the worker exits; with the signal unset it enters the restart delay;
\* and once the signal has been set during the delay the worker exits
\* without calling poll_messages() again.
C10_RestartAfterRaise ==
    [][\A w \in Threads :
         /\ (worker[w].pc = "w_except" /\ worker'[w] # worker[w]) =>
               IF stop_flag THEN worker'[w].pc = "dead"
               ELSE worker'[w].pc = "w_wait" /\ worker'[w].tick = 0
         /\ (worker[w].pc = "w_wait" /\ worker'[w].pc = "w_check") =>
               (stop_flag \/ worker[w].tick + 1 = POLL_RESTART_DELAY_SECONDS)
         /\ worker[w].last = "stopInWait" => worker'[w].pc # "pm_init"]_vars

\* ---- properties of init() -----------------------------------------------
\* the delays a run of init() may have slept so far: the first is the
\* initial backoff, each next one is twice the one before up to the
\* maximum, none is shorter than the one before or longer than the maximum
BackoffSequence(s) ==
    /\ Len(s) > 0 => s[1] = INITIAL_BACKOFF_SECONDS
    /\ \A i \in 1..Len(s) : s[i] <= MAX_BACKOFF_SECONDS
    /\ \A i \in 1..(Len(s) - 1) :
         /\ s[i + 1] = Min(2 * s[i], MAX_BACKOFF_SECONDS)
         /\ s[i] <= s[i + 1]

C12_RaiseOnlyWhenExhausted ==
    [][\A w \in Threads :
         /\ (worker[w].pc = "pm_init" /\ lastCall'.op = "init"
             /\ lastCall'.res \notin {"ok", "InterruptedError"}) =>
               /\ lastCall'.res = "ConnectionError"
               /\ lastCall'.attempts = MAX_CONNECTION_RETRIES
               /\ lastCall'.fails = MAX_CONNECTION_RETRIES
               /\ Len(lastCall'.slept) = MAX_CONNECTION_RETRIES - 1
               /\ worker'[w].exc = "error"
         /\ (lastCall'.op = "poll_messages" /\ lastCall'.res = "raise"
             /\ worker'[w] # worker[w]) => worker'[w].pc = "w_except"]_vars

\* C13: once the stop signal has been set while init() waits in a
\* connection backoff, init() does not complete the backoff: it raises
\* InterruptedError, and the thread makes no further connection attempt and
\* polls no record.
C13_StopInterruptsBackoff ==
    \A w \in Threads :
        worker[w].last = "stopInBackoff" =>
            worker[w].pc \in BackoffPcs \cup {"cl_check"}

\* ---- properties of the handling of one record ---------------------------
\* value bytes that are not valid structured data: not UTF-8, not JSON, or
\* JSON that is not an object
Malformed == {"invalid_utf8", "invalid_json", "json_scalar", "json_array"}

\* the thread that has just handled a record is back at the loop test
LoopGoesOn == \A w \in AliveThreads : worker[w].pc = "pm_loop"

\* C14: for every record whose value is not valid structured data nothing
\* is raised out of the handling, exactly one dead-letter publish is
\* attempted for the record, the processing callback is not called, and
\* the loop goes on.
C14_MalformedToDlq ==
    (lastCall.op = "process" /\ lastCall.payload \in Malformed) =>
        /\ ~lastCall.raised
        /\ Len(lastCall.publishes) = 1
        /\ lastCall.publishes[1].value = lastCall.payload
        /\ lastCall.callbacks = 0
        /\ LoopGoesOn

C14_Witness ==
    /\ lastCall.op = "process" /\ lastCall.payload = "invalid_json"
    /\ lastCall.key = "utf8"
    /\ Len(lastCall.publishes) = 1
    /\ lastCall.publishes[1].result = "ok"

\* C15: for every well-formed record whose processing callback reports
\* success no dead-letter publish is made.
C15_SuccessNoDlq ==
    (lastCall.op = "process" /\ lastCall.callback = "success") =>
        /\ lastCall.publishes = <<>>
        /\ lastCall.callbacks = 1

C15_Witness ==
    /\ lastCall.op = "process" /\ lastCall.callback = "success"
    /\ lastCall.payload = "event"
    /\ \E w \in Threads : worker[w].pc = "pm_loop"

\* C16: for every well-formed record whose processing callback returns a
\* result without success or raises, exactly one dead-letter publish is
\* attempted, nothing is raised out of the handling, and the loop goes on.
C16_FailureToDlq ==
    (lastCall.op = "process" /\ lastCall.callback \in {"failure", "raise"}) =>
        /\ Len(lastCall.publishes) = 1
        /\ lastCall.publishes[1].value = lastCall.payload
        /\ lastCall.callbacks = 1
        /\ ~lastCall.raised
        /\ LoopGoesOn

C16_Witness ==
    /\ lastCall.op = "process" /\ lastCall.callback = "failure"
    /\ Len(lastCall.publishes) = 1
    /\ keep_running /\ ~stop_flag

\* a dead-letter publish of the record just handled failed
DlqFailed ==
    /\ lastCall.op = "process"
    /\ \E i \in 1..Len(lastCall.publishes) :
         lastCall.publishes[i].result # "ok"

\* C17: a dead-letter publish that fails (produce or flush raises) is not
\* raised out of _send_to_dlq and does not end the poll loop.
C17_DlqFailureContained ==
    DlqFailed => (~lastCall.raised /\ LoopGoesOn)

C17_Witness ==
    /\ DlqFailed
    /\ lastCall.publishes[1].result = "produce_raises"
    /\ \E w \in Threads : worker[w].pc = "pm_loop"

\* C18: when the processing callback fails with reason R, the error_reason
\* header of the dead-letter message is R, cut to the first
\* ERROR_REASON_LIMIT characters when R is longer, and its correlation_id
\* header is the correlation id generated for the record and logged.
C18_DlqHeaders ==
    (lastCall.op = "process" /\ lastCall.callback \in {"failure", "raise"}) =>
        /\ Len(lastCall.publishes) = 1
        /\ lastCall.publishes[1].error_reason
              = Truncate(lastCall.reason, ERROR_REASON_LIMIT)
        /\ lastCall.publishes[1].correlation_id = lastCall.correlation_id
        /\ lastCall.correlation_id \in lastCall.logged

\* ---- properties of the close ---------------------------------------------
\* the calls that try to commit the offsets
CommitCalls == {"commit", "commit:KafkaError", "commit:Exception"}

\* C19: whenever poll_messages() is left after a successful connect, by a
\* return or by an exception, the connection has been closed: a commit
\* came first, then the client was closed, and the closed-flag is set.
C19_ClosedOnExit ==
    (lastCall.op = "poll_messages" /\ lastCall.connected) =>
        /\ Len(lastCall.calls) = 2
        /\ lastCall.calls[1] \in CommitCalls
        /\ lastCall.calls[2] = "close"
        /\ client.state = "closed"
        /\ consumer_closed

\* C20: whatever error the commit raises in _close_consumer, the client is
\* closed afterwards and the closed-flag is set.
C20_CommitErrorStillCloses ==
    (/\ lastCall.op = "poll_messages"
     /\ \E i \in 1..Len(lastCall.calls) :
          lastCall.calls[i] \in {"commit:KafkaError", "commit:Exception"}) =>
        /\ lastCall.calls[Len(lastCall.calls)] = "close"
        /\ client.state = "closed"
        /\ consumer_closed

\* ---- closing twice, broker errors, records in flight --------------------
\* C21: _close_consumer is idempotent: a call made when the consumer is
\* already closed, or when no connection was ever established, returns at
\* its first statement: no commit and no close reach the client, and
\* _consumer, _consumer_closed, the client, keep_running, stop_flag and
\* thread_list are what they were.
C21_CloseIdempotent ==
    [][/\ \A w \in Threads :
            (worker[w].pc = "cl_check" /\ consumer_closed
             /\ worker'[w] # worker[w])
            => /\ worker'[w].pc \in {"w_check", "w_except"}
               /\ lastCall'.op = "poll_messages" /\ lastCall'.calls = <<>>
               /\ UNCHANGED <<clientVars, adapterVars>>
       /\ \A c \in Callers :
            (caller[c].pc = "cl_check" /\ consumer_closed
             /\ caller'[c] # caller[c])
            => /\ caller'[c].pc = "idle"
               /\ UNCHANGED <<clientVars, adapterVars>>]_vars

\* stop_scheduler() returns through after_stopping_poll() after the thread
\* has closed the client on its way out: the second close did nothing.
C21_Witness ==
    /\ lastResult.op = "stop" /\ lastResult.res = "ok"
    /\ consumer_closed
    /\ client = [state |-> "closed", commits |-> 1, closes |-> 1]

\* C22: a polled record that carries a broker-level error, the end of a
\* partition or any other, is logged and skipped: the callback is not
\* called, nothing is published to the dead-letter topic, the connection is
\* neither closed nor replaced, and the thread is back at the loop test.
C22_BrokerErrorSkipped ==
    [][lastCall'.op = "kafka_error"
       => /\ lastCall'.callbacks = 0
          /\ lastCall'.publishes = <<>>
          /\ UNCHANGED clientVars
          /\ \E w \in Threads :
               worker[w].pc = "pm_poll" /\ worker'[w].pc = "pm_loop"]_vars

C22_Witness ==
    /\ lastCall.op = "kafka_error" /\ lastCall.code = "other"
    /\ consumer = "obj" /\ client.state = "open" /\ ~consumer_closed
    /\ \E w \in Threads : worker[w].pc = "pm_loop" /\ worker[w].connected

\* the outcomes of a record: the callback succeeded and nothing went to the
\* dead-letter topic, or exactly one publish was attempted
RecordOutcome ==
    /\ lastCall.op = "process"
    /\ \/ lastCall.callback = "success" /\ lastCall.publishes = <<>>
       \/ lastCall.callback # "success" /\ Len(lastCall.publishes) = 1

\* C23: a stop request does not interrupt the record in hand: a thread that
\* is handling a record leaves that statement only with the record at one
\* of its outcomes and is then at the loop test, where it reads the stop
\* signal; and it does get there, also when stop_scheduler() has timed out
\* on the thread and closed the consumer meanwhile.
C23_InFlightCompletes ==
    /\ [][\A w \in Threads :
            (worker[w].pc = "pm_process" /\ worker'[w] # worker[w])
            => RecordOutcome' /\ worker'[w].pc = "pm_loop"]_vars
    /\ (\E w \in Threads : worker[w].pc = "pm_process") ~> RecordOutcome

\* stop_scheduler() has timed out, closed the consumer and returned; the
\* record then ends with its one dead-letter publish.
C23_Witness ==
    /\ RecordOutcome /\ Len(lastCall.publishes) = 1
    /\ stop_flag /\ timeouts = 1 /\ thread_list = <<>>
    /\ consumer_closed /\ client.state = "closed"
    /\ caller["c1"].pc = "idle"
    /\ \E w \in Threads : worker[w].pc = "pm_loop"

\* ---- the dead-letter message and the correlation ids -------------------
\* C24: every dead-letter message carries the key bytes and the value bytes
\* of the record it is about, as polled, whether the record failed at
\* decoding or at dispatch.
C24_DlqKeyValue ==
    lastCall.op = "process" =>
        \A i \in 1..Len(lastCall.publishes) :
            /\ lastCall.publishes[i].key = lastCall.key
            /\ lastCall.publishes[i].value = lastCall.payload

\* a record whose key is not UTF-8 goes to the dead-letter topic with the
\* key it came with
C24_Witness ==
    /\ lastCall.op = "process" /\ lastCall.key = "invalid_utf8"
    /\ lastCall.payload = "event"
    /\ Len(lastCall.publishes) = 1
    /\ lastCall.publishes[1].key = "invalid_utf8"

\* C25: each polled record gets its own correlation id: the id given to a
\* record was never given to a record before, over the lifetime of the
\* consumer.
C25_UniqueIds ==
    [][lastCall'.op \in {"process", "kafka_error"}
       => lastCall'.correlation_id \notin issued]_vars

\* ---- the use cases ------------------------------------------------------
\* s[:n] is the text t
StartsWith(s, t) == Truncate(s, TextLen(t)) = t

\* the text t is part of s
Contains(s, t) ==
    \E i \in 1..(Len(s) - Len(t) + 1) : SubSeq(s, i, i + Len(t) - 1) = t

\* the names of the helper methods called, in the order of the calls
CalledHelpers(call) == [i \in 1..Len(call.calls) |-> call.calls[i].fn]

\* C26: whenever the selected processor completes process(event) without
\* raising, whatever it returns (None included), execute returns a result
\* with success set and a message that names the event, and
\* detect_event_processor and process have been called exactly once each.
C26_ProcessedMeansSuccess ==
    (lastCall.op = "process_events"
     /\ lastCall.process.kind \in {"None", "ServiceOutput"})
    => /\ lastCall.success
       /\ Contains(lastCall.message, Text(lastCall.event, Len(lastCall.event)))
       /\ lastCall.calls = <<"detect_event_processor", "process">>

\* C27: USECASE_ProcessEvents.execute never raises: when
\* detect_event_processor raises or process raises, the result has success
\* unset and a message that starts with "Failed to process event" and
\* contains the text of the error.
C27_NeverRaises ==
    lastCall.op = "process_events"
    => /\ lastCall.raised = "none"
       /\ lastCall.process.kind \in {"none", "raise"}
          => /\ ~lastCall.success
             /\ StartsWith(lastCall.message,
                           Truncate(Text("Failed to process event: ", 25), 23))
             /\ Contains(lastCall.message, lastCall.error)
             /\ lastCall.error # <<>>

C27_Witness ==
    /\ lastCall.op = "process_events"
    /\ lastCall.process.kind = "raise"
    /\ lastCall.process.text = Text("Processing failed", 17)
    /\ ~lastCall.success

\* C28: for every order load_order returns and validate_order accepts by
\* returning without raising, execute calls calculate_shipping,
\* apply_discounts, update_order_status(order, "processing") and
\* notify_customer once each in that order and returns a result with
\* success set and final_total = total_amount + shipping - discount.
C28_AcceptedOrderProcessed ==
    (lastCall.op = "process_order" /\ lastCall.validated \in ValidateReturns)
    => /\ lastCall.success
       /\ lastCall.calls =
            <<HelperCall("load_order", lastCall.order_id, ""),
              HelperCall("validate_order", lastCall.order_id, ""),
              HelperCall("calculate_shipping", lastCall.order_id, ""),
              HelperCall("apply_discounts", lastCall.order_id, ""),
              HelperCall("update_order_status", lastCall.order_id, "processing"),
              HelperCall("notify_customer", lastCall.order_id, "")>>
       /\ lastCall.final_total = TotalAmount(lastCall.order_id)
                                 + lastCall.shipping_cost
                                 - lastCall.discount_applied

\* C29: USECASE_ProcessOrder.execute stops at the first failing step: when
\* load_order raises, the exception leaves execute and no other helper is
\* called; when validate_order raises, the exception leaves execute, none
\* of calculate_shipping, apply_discounts, update_order_status and
\* notify_customer is called, and the stored status of the order is what
\* it was.
C29_StopsAtFirstFailure ==
    [][lastCall'.op = "process_order"
       => /\ lastCall'.load = "OrderNotFoundException"
             => /\ lastCall'.raised = "OrderNotFoundException"
                /\ CalledHelpers(lastCall') = <<"load_order">>
                /\ ~lastCall'.success
                /\ UNCHANGED orders
          /\ (/\ lastCall'.load = "order"
              /\ validate_order(orders.process, lastCall'.order_id) # "none")
             => /\ lastCall'.raised = "InvalidOrderException"
                /\ CalledHelpers(lastCall') = <<"load_order", "validate_order">>
                /\ ~lastCall'.success
                /\ UNCHANGED orders]_vars

\* an order that has been processed is sent for processing again, and
\* validate_order rejects it
C29_Witness ==
    /\ lastCall.op = "process_order" /\ lastCall.order_id = "1"
    /\ lastCall.failed_at = "validate_order"
    /\ orders.process["1"] = "processing"

\* C30: USECASE_CancelOrder.execute stops at the first failing step: when
\* load_order raises no other helper is called, when validate_cancellable
\* raises none of calculate_refund, update_order_status and
\* notify_customer is called, and the exception leaves execute; otherwise
\* the five helpers are called once each in order, with
\* update_order_status(order, "cancelled"), and the result has success set.
C30_CancelStopsAtFirstFailure ==
    [][lastCall'.op = "cancel_order"
       => LET id == lastCall'.order_id
              rejected == validate_cancellable(orders.cancel, id) # "none"
          IN /\ lastCall'.load = "OrderNotFoundException"
                => /\ lastCall'.raised = "OrderNotFoundException"
                   /\ CalledHelpers(lastCall') = <<"load_order">>
                   /\ ~lastCall'.success
                   /\ UNCHANGED orders
             /\ (lastCall'.load = "order" /\ rejected)
                => /\ lastCall'.raised = "OrderNotCancellableException"
                   /\ CalledHelpers(lastCall')
                        = <<"load_order", "validate_cancellable">>
                   /\ ~lastCall'.success
                   /\ UNCHANGED orders
             /\ (lastCall'.load = "order" /\ ~rejected)
                => /\ lastCall'.raised = "none"
                   /\ lastCall'.calls =
                        <<HelperCall("load_order", id, ""),
                          HelperCall("validate_cancellable", id, ""),
                          HelperCall("calculate_refund", id, ""),
                          HelperCall("update_order_status", id, "cancelled"),
                          HelperCall("notify_customer", id, "")>>
                   /\ lastCall'.success
                   /\ orders'.cancel[id] = "cancelled"]_vars

\* an order that has been cancelled is sent for cancellation again, and
\* validate_cancellable rejects it
C30_Witness ==
    /\ lastCall.op = "cancel_order" /\ lastCall.order_id = "4"
    /\ lastCall.failed_at = "validate_cancellable"
    /\ orders.cancel["4"] = "cancelled"

\* ---- the service around the use case ------------------------------------
\* the user is one the configured authorization service refuses
Refused(call) ==
    /\ call.auth # "None" /\ call.user # "None"
    /\ ~is_authorized(call.user)

C32_NoUserRefused ==
    (/\ lastCall.op = "service_run"
     /\ lastCall.auth # "None" /\ lastCall.user = "None")
    => (lastCall.status = "UNAUTHORIZED" /\ ~lastCall.built)

\* ---- the validation rules ------------------------------------------------
\* C33: validate_order raises InvalidOrderException for every order whose
\* shipping region is not supported.
C33_UnsupportedRegionRejected ==
    (lastCall.op = "validate_order" /\ lastCall.region \in UNSUPPORTED_REGIONS)
    => lastCall.raised = "InvalidOrderException"

\* C34: validate_order accepts an order only if its amount is greater than
\* 0 and less than FRAUD_THRESHOLD_AMOUNT; every amount <= 0 or >= the
\* threshold, the threshold itself included, is rejected with
\* InvalidOrderException.
C34_AmountStrictlyInside ==
    lastCall.op = "validate_order" =>
      /\ lastCall.raised = "none" =>
            (0 < lastCall.amount /\ lastCall.amount < FRAUD_THRESHOLD_AMOUNT)
      /\ (lastCall.amount <= 0 \/ lastCall.amount >= FRAUD_THRESHOLD_AMOUNT)
            => lastCall.raised = "InvalidOrderException"

\* ---- processing an order twice -------------------------------------------
\* the exception a processing run ended with
RunException(call) ==
    IF call.op = "service_run" THEN call.exc ELSE call.raised

\* C40: once update_order_status(order, "processing") has stored an order,
\* every later processing run for its id (the use case alone or behind the
\* service) that reaches validate_order gets InvalidOrderException there,
\* calls neither update_order_status nor notify_customer, and leaves the
\* store as it is.
C40_ProcessedOnce ==
    [][\A id \in DOMAIN orders.process :
         (/\ orders.process[id] = "processing"
          /\ lastCall'.op \in {"process_order", "service_run"}
          /\ lastCall'.order_id = id)
         => /\ UNCHANGED orders
            /\ \A i \in DOMAIN lastCall'.calls :
                  lastCall'.calls[i].fn
                    \notin {"update_order_status", "notify_customer",
                             "calculate_shipping", "apply_discounts"}
            /\ (\E i \in DOMAIN lastCall'.calls :
                   lastCall'.calls[i].fn = "validate_order")
               => RunException(lastCall') = "InvalidOrderException"]_vars

\* order 1, new at the start, has been moved to "processing" and a later
\* run of the service for it ended in VALIDATION_ERROR
C40_Witness ==
    /\ lastCall.op = "service_run" /\ lastCall.order_id = "1"
    /\ lastCall.executed /\ lastCall.status = "VALIDATION_ERROR"
    /\ orders.process["1"] = "processing"

\* ---- what poll_messages() leaves behind ----------------------------------
\* C37: after poll_messages() has returned or raised, no consumer client it
\* created is left open, also when init() failed after the Consumer object
\* was created and before the closed-flag was cleared.
C37_NothingLeftOpen ==
    lastCall.op = "poll_messages" => (client.state # "open" /\ ~orphans)

\* ---- init() under the stop signal ----------------------------------------
\* C39: with the stop signal set, whatever init() is doing, it ends after
\* at most one more connection attempt and one more one-second sleep: the
\* sleep in progress ends and is followed by the test of the signal or, if
\* it was the last of the backoff, by one connection attempt; a connection
\* attempt ends init() or leads to the test of the signal; the test of the
\* signal raises InterruptedError.
C39_InitEndsSoon ==
    [][\A w \in Threads :
         (stop_flag /\ worker'[w] # worker[w]) =>
           /\ worker[w].pc = "pm_sleep" =>
                 worker'[w].pc \in {"pm_backoff", "pm_init"}
           /\ worker[w].pc = "pm_init" =>
                 \/ /\ worker'[w].pc \in {"pm_loop", "cl_check"}
                    /\ lastCall'.op = "init"
                 \/ worker'[w].pc = "pm_backoff" /\ worker'[w].tick = 0
           /\ worker[w].pc = "pm_backoff" =>
                 /\ worker'[w].pc = "cl_check"
                 /\ lastCall'.op = "init"
                 /\ lastCall'.res = "InterruptedError"]_vars

\* the signal arrived during the last second of a backoff and the thread
\* is at the one further connection attempt
C39_Witness ==
    \E w \in Threads :
        /\ stop_flag /\ worker[w].pc = "pm_init"
        /\ worker[w].last = "stopInBackoff"
        /\ worker[w].tries >= 1

\* ---- the tracked thread ---------------------------------------------------
\* a stop_scheduler() call has taken the lock and not yet returned
StopBegun ==
    \E c \in Callers : caller[c].op = "stop" /\ caller[c].pc \notin {"idle", "wait"}

\* C36: while thread_list is not empty (is_scheduler_running() answers
\* true) and no stop_scheduler() has begun, the tracked thread is alive;
\* and a thread only ever leaves _poll_wrapper with the stop signal set,
\* whatever connection failures, broker errors, record failures and
\* exceptions of poll_messages() came before.
C36_TrackedWorkerAlive ==
    /\ [](thread_list # <<>> /\ ~StopBegun
            => \A t \in Range(thread_list) : is_alive(t))
    /\ [][\A w \in Threads :
            (is_alive(w) /\ worker'[w].pc = "dead") => stop_flag]_vars

\* poll_messages() has raised and the tracked thread waits to restart it,
\* with no stop requested
C36_Witness ==
    /\ thread_list # <<>> /\ ~StopBegun /\ ~stop_flag
    /\ \E t \in Range(thread_list) : worker[t].pc = "w_wait"

\* ---- a start that raises --------------------------------------------------
\* C38: whenever start_scheduler() raises, for whatever reason, thread_list
\* is what it was and no thread has been started.
C38_FailedStartRestores ==
    [][\A c \in Callers :
         Raises(c, "start")
         => (thread_list' = thread_list /\ AliveThreads' \subseteq AliveThreads)]_vars

\* ---- a thread that was told to stop ---------------------------------------
\* stop_scheduler() has set the stop signal for the thread: it is waiting
\* for the thread in join(), or it has given up on it and dropped it from
\* thread_list
Stopped(w) ==
    /\ is_alive(w)
    /\ \/ w \notin Range(thread_list)
       \/ \E c \in Callers : caller[c].pc = "st_join"

\* C35: a thread for which stop_scheduler() has been called terminates at
\* last, whatever lifecycle calls follow, provided the thread is scheduled
\* and the calls it makes return.
C35_StoppedWorkerEnds ==
    \A w \in Threads : Stopped(w) ~> ~is_alive(w)
====
